---- MODULE Spec2Model ----
(***************************************************************************)
(* Model of the malsori transcription gateway (python_api/api_server).     *)
(*                                                                         *)
(* Part 1: RTZRClient access-token cache (stt_client.py, lines 137-228).   *)
(* Part 2: batch status polling loop (main.py, _poll_until_complete).      *)
(* Part 3: GrpcStreamingSession (stt_client.py, lines 40-130).             *)
(* Part 4: the streaming relay handlers (main.py, lines 799-1021).         *)
(*                                                                         *)
(* Coroutines run on one asyncio event loop: a coroutine runs without      *)
(* interruption between two awaits, so every action below is the code      *)
(* between two suspension points.                                          *)
(***************************************************************************)
EXTENDS Integers, Naturals, Sequences, FiniteSets, TLC

(***************************************************************************)
(* Bounds of the model                                                     *)
(***************************************************************************)
NumCallers == 2          \* concurrent coroutines calling _resolve_access_token
MaxCalls == 3            \* calls to _resolve_access_token in one behaviour
MaxTicks == 1            \* advances of the wall clock in one behaviour
MaxInterval == 2         \* largest poll_interval_seconds tried
MaxTimeout == 3          \* largest poll_timeout_seconds tried
MaxLatency == 2          \* largest duration of one status fetch
MaxOvershoot == 1        \* largest lateness of an asyncio.sleep wake-up
MaxAudio == 2            \* audio frames of one streaming session
MaxResp == 2             \* responses of one upstream streaming call
MaxOps == 4              \* start/send_audio/finish/close calls on one session
NumRequests == 2         \* requests that use the cached backend client
MaxUpdates == 2          \* replacements of the backend endpoint override

(***************************************************************************)
(* Program constants                                                       *)
(***************************************************************************)
SafetyMargin == 5        \* "now < self._token_expiry - 5"
DefaultLease == 300      \* "expiry = now + 300"

Callers == 1..NumCallers
NoToken == ""            \* self._access_token is None (or empty: both are falsy)
NoCaller == 0            \* the lock is not held

TickSteps == {SafetyMargin + 1, DefaultLease}
ExpireAtOffsets == {-1, 0, 3, 20}      \* expire_at values, relative to the refresh time
ExpiresInValues == {0, 3, 20}      \* expires_in values

VARIABLES
    \* ---- RTZRClient configuration (constructor, stt_client.py:140-152)
    deployment,      \* "cloud" | "onprem"
    manual_token,    \* "" when no static token is configured
    auth_enabled,    \* both client id and secret configured
    \* ---- RTZRClient token cache
    access_token,    \* NoToken or the token string of the refresh that produced it
    token_expiry,    \* absolute time
    token_lock,      \* [holder |-> caller or NoCaller, waiters |-> FIFO of callers]
    \* ---- environment
    now,             \* time.time()
    ticks,
    \* ---- the callers of _resolve_access_token
    pc,              \* "idle" | "wait" (on the lock) | "post" (awaiting the auth reply) | "done"
    ret,             \* what the last finished call returned or raised
    \* ---- history of the token cache
    calls,           \* calls started
    issued,          \* refresh requests sent to the auth endpoint
    ended,           \* refresh requests that have returned or raised
    nref,            \* per caller: refresh requests sent by its current call
    hit,             \* per caller: the cache held a valid token at its last validity check
    got,             \* per caller: the token in the reply to its last refresh
    lastStore,       \* the reply of the last successful refresh: its token, its
                     \* time, and the expiry it asks for (see Candidate)
    racers,          \* callers that took the lock path before any refresh ended
    wakeMiss,        \* a caller woken on the lock found no valid token at its re-check
    \* ---- _poll_until_complete
    ppc,             \* "init" | "await" (the fetch) | "sleep" | "done"
    clock,           \* loop.time()
    interval,        \* settings.poll_interval_seconds
    timeout,         \* settings.poll_timeout_seconds
    deadline,
    outcome,         \* "none" | "completed" | "failed" | "timeout" | "error"
    fetches,         \* status fetches issued
    lateFetches,     \* status fetches issued after the deadline
    returns,         \* number of times poll has returned or raised
    sawTerminal,     \* the upstream has answered completed or failed
    lastStatus,      \* the status of the last answer, "none" before the first
    enteredAt,       \* loop.time() when _poll_until_complete was entered
    \* ---- GrpcStreamingSession (stt_client.py:43-60)
    channel,         \* self._channel: "none" | "open" | "closed"
    call,            \* self._call: "none" | "open" | "closed"
    done_writing,    \* done_writing() has been called on the call
    written,         \* audio frames the call object accepted, in order
    recv_queue,      \* self._recv_queue
    recv_task,       \* self._recv_task: "none" | "created" | "running" | "done"
    must_cancel,     \* cancel() was called on the receive task, not yet delivered
    last_error,      \* self._last_error is set
    closed,          \* self._closed
    emitted,         \* responses the call has yielded to _recv_loop, in order
    \* ---- history of the session
    sentinels,       \* sentinels put on the queue
    releases,        \* cancel and close operations performed by close()
    received,        \* values returned by recv(), in order
    sendRes,         \* result of the last send_audio: "none" | "ok" | "state_error" | "call_error"
    lateSend,        \* result of the last send_audio made after finish() or close()
    finishes,        \* calls of finish()
    closeCalls,      \* calls of close()
    emittedAtFinish, \* Len(emitted) at the first finish()
    ops,             \* calls made by the owner of a free-standing session
    \* ---- the relay handler and its pumps
    hpc,             \* "off" | "accepted" | "connect" | "ready" | "wait" | "close_upstream" | "close_local" | "returned"
    pst,             \* per pump: "none" | "run" | "done"
    pcancel,         \* per pump: cancel() was called, not yet delivered
    pres,            \* per pump: "none" | "ok" | "error" | "cancelled"
    wsClient,        \* the local client: "connected" | "gone"
    wsIn,            \* binary frames received from the local client (frames 1..wsIn)
    wsOut,           \* text frames sent to the local client, in order
    wsClosed,        \* websocket.close() was called
    upstream,        \* the cloud upstream websocket: "none" | "open" | "dropped" | "closed"
    teardown,        \* the teardown operations of the handler, in order
    raised,          \* teardown operations that raised
    escaped,         \* the exception leaving the handler: "none" | "ready" | "pump" | "teardown"
    lastText,        \* the last frame read as a control message: the first frame of the
                     \* handshake, or a text frame received by relay_client_to_grpc
    \* ---- the batch handlers stt_api and proxy_transcribe
    bpc,             \* "off" | "recv" | "submit" | "poll" | "done"
    bHandler,        \* "none" | "stt_api" | "transcribe"
    bReq,            \* the request as it was validated
    bCalls,          \* requests sent upstream by submit_transcription, in order
    bSub,            \* the reply to the submit request
    bRet,            \* the payload returned by submit_transcription
    bJob,            \* the transcribe_id that stt_api polls
    bPayload,        \* the payload returned by _poll_until_complete
    bColl,           \* what the collector did with the notification
    bCollOk,         \* collector_ok
    bResp,           \* what the handler handed back
    bKind,           \* the way the request ended
    \* ---- the cached backend client and the endpoint override
    eSettings,       \* what get_settings() returns: a backend, or "broken"
    eClient,         \* _client: NoClient or the index of a client object
    eClients,        \* the RTZRClient objects built so far
    eReq,            \* per request: its state, its client, the settings at its start
    eSent,           \* tokens sent upstream: the backend that issued it, the backend sent to
    eUpdates,        \* calls of set_backend_endpoint and reset_backend_endpoint
    \* ---- the response normalizer
    nPayload,        \* the payload given to the normalizer
    nSeg,            \* the outcome of _extract_segments
    nTexts,          \* the outcome of _collect_text_candidates
    nOut,            \* the payload that the status handler returns
    nAgain           \* the outcome of _extract_segments on the returned payload

tokenVars == <<deployment, manual_token, auth_enabled, access_token, token_expiry,
               token_lock, now, ticks, pc, ret, calls, issued, ended, nref, hit,
               got, lastStore, racers, wakeMiss>>
pollVars == <<ppc, clock, interval, timeout, deadline, outcome, fetches,
              lateFetches, returns, sawTerminal, lastStatus, enteredAt>>
sessVars == <<channel, call, done_writing, written, recv_queue, recv_task,
              must_cancel, last_error, closed, emitted>>
sessHist == <<sentinels, releases, received, sendRes, lateSend, finishes,
              closeCalls, emittedAtFinish>>
relayVars == <<hpc, pst, pcancel, pres, wsClient, wsIn, wsOut, wsClosed, upstream,
               teardown, raised, escaped, lastText>>
streamVars == <<sessVars, sessHist, ops, relayVars>>
batchVars == <<bpc, bHandler, bReq, bCalls, bSub, bRet, bJob, bPayload, bColl,
               bCollOk, bResp, bKind>>
endpointVars == <<eSettings, eClient, eClients, eReq, eSent, eUpdates>>
normVars == <<nPayload, nSeg, nTexts, nOut, nAgain>>
apiVars == <<batchVars, endpointVars, normVars>>
vars == <<tokenVars, pollVars, streamVars, apiVars>>

Pumps == {"c2u", "u2c"}      \* client-to-upstream, upstream-to-client

\* ---- text frames of the local client ---------------------------------------
\* A JSON value under one of the keys read by _normalize_message_type: missing,
\* not a string, or a string.  A string is its lower-case, trimmed word
\* together with what strip() and lower() would remove: surrounding blanks
\* (pad) and upper-case letters (upper).
NoValue == [kind |-> "absent", word |-> "", pad |-> FALSE, upper |-> FALSE]
NumberValue == [kind |-> "number", word |-> "", pad |-> FALSE, upper |-> FALSE]
Text(w, p, u) == [kind |-> "string", word |-> w, pad |-> p, upper |-> u]

\* str.strip()
Strip(v) == [v EXCEPT !.pad = FALSE]

KeepCase(v) == v

\* str.lower()
Lower(v) == [v EXCEPT !.upper = FALSE]

\* The empty string, which _normalize_message_type returns when no key holds
\* a string that is not blank.
EmptyText == Text("", FALSE, FALSE)

\* A frame of the local websocket: a binary frame, or a text frame that is not
\* JSON, is a JSON value other than an object, or is a JSON object with the
\* given values under type, event, state and event_type.
BinaryFrame ==
    [json |-> "binary", type |-> NoValue, event |-> NoValue, state |-> NoValue,
     event_type |-> NoValue]
InvalidJson == [BinaryFrame EXCEPT !.json = "invalid"]
JsonList == [BinaryFrame EXCEPT !.json = "list"]
Object(t, e, s, et) ==
    [json |-> "object", type |-> t, event |-> e, state |-> s, event_type |-> et]

\* No frame has been received yet.
NoFrame == [BinaryFrame EXCEPT !.json = "none"]

\* The text frames tried.
TextFrames ==
    {InvalidJson, JsonList,
     Object(NoValue, NoValue, NoValue, NoValue),
     Object(Text("final", TRUE, TRUE), NoValue, NoValue, NoValue),
     Object(Text("audio", FALSE, FALSE), Text("final", FALSE, FALSE), NoValue, NoValue),
     Object(NumberValue, Text("stop", FALSE, TRUE), NoValue, NoValue),
     Object(Text("", TRUE, FALSE), NoValue, Text("eos", FALSE, FALSE), NoValue),
     Object(NoValue, NoValue, NoValue, Text("final", FALSE, FALSE)),
     Object(Text("start", FALSE, TRUE), NoValue, NoValue, NoValue)}

\* main.py:692
TypeKeys == <<"type", "event", "state", "event_type">>

\* main.py:691-698: the first key, in the order of TypeKeys, whose value is a
\* string that is not blank; that string trimmed and lower-cased; the empty
\* string when there is none.
RECURSIVE NormalizeFrom(_, _)
NormalizeFrom(payload, i) ==
    IF i > Len(TypeKeys) THEN EmptyText
    ELSE LET value == payload[TypeKeys[i]]
         IN  IF value.kind = "string" /\ Strip(value).word # ""
             THEN Lower(Strip(value))
             ELSE NormalizeFrom(payload, i + 1)

NormalizeMessageType(payload) == NormalizeFrom(payload, 1)

\* main.py:878: {"final", "stop", "eos"}
TerminalTypes == {Text(w, FALSE, FALSE) : w \in {"final", "stop", "eos"}}

\* main.py:833: {"start", "session", "start_request"}
StartTypes == {Text(w, FALSE, FALSE) : w \in {"start", "session", "start_request"}}

\* main.py:871-878: the text frame parses as a JSON object whose normalized
\* type is a terminal marker.
IsMarker(frame) ==
    /\ frame.json = "object"
    /\ NormalizeMessageType(frame) \in TerminalTypes

\* main.py:811-836: the first frame is accepted as the start message: it has
\* text, the text parses as a JSON object, and its normalized type is empty or
\* a start type.
StartAccepted(frame) ==
    /\ frame.json = "object"
    /\ LET msg_type == NormalizeMessageType(frame)
       IN  msg_type = EmptyText \/ msg_type \in StartTypes

\* ---- values of the batch handlers -------------------------------------------
\* A key that the JSON payload does not have.
Missing == "<missing>"

\* payload.get(key) is falsy: the key is missing or its value is empty or null.
Falsy(v) == v \in {Missing, ""}

\* The reply to the submit request: the reply could not be had (network
\* error), has a status other than 2xx, or is a JSON object with the given
\* values under id, tid and transcribe_id.
Reply(h, i, t, tr) == [http |-> h, id |-> i, tid |-> t, transcribe_id |-> tr]
NoReply == Reply("none", Missing, Missing, Missing)

\* A text: the sequence of its words.
TimeoutMessage == <<"Transcription job timed out before completion.">>

\* The payload of a status fetch that ended the polling: its status, the text
\* that _collect_text_candidates finds in it (joined), and its message and
\* error fields (the empty text when missing or empty).
StatusPayload(s, t, m, e) == [status |-> s, text |-> t, message |-> m, error |-> e]
NoPayload == StatusPayload("none", <<>>, <<>>, <<>>)

\* What a handler hands back: nothing yet, an STTResponse, an HTTPException
\* with a status code, the upstream payload (proxy_transcribe), or an
\* exception it does not handle.
Responded(k, r, text) == [kind |-> k, result |-> r, recognized |-> text]
NoResponse == Responded("none", 0, <<>>)

\* ---- values of the client cache ----------------------------------------------
Requests == 1..NumRequests

\* Settings that get_settings() can return, named by the backend they point
\* to; "broken" when it raises RuntimeError (config.py:235-249).
DefaultBackend == "b1"
Backends == {"b1", "b2"}

\* No RTZRClient object: _client is None.
NoClient == 0

\* A request that has not started.
IdleRequest == [state |-> "idle", client |-> NoClient, under |-> "none"]

\* ---- values of the response normalizer ---------------------------------------
\* An upstream payload: the key that holds its list of nodes ("results" or
\* "utterances"), the nodes, the value under "text", and the list under
\* "segments" (empty when the key is missing).
Doc(key, nodes, text, segments) ==
    [key |-> key, nodes |-> nodes, text |-> text, segments |-> segments]

\* The function has not been called yet.
NotRun == [called |-> FALSE, raised |-> FALSE, out |-> <<>>]

(***************************************************************************)
(* Part 1.  Access token cache                                             *)
(***************************************************************************)

\* A field of the JSON auth response: missing (or null), present but not a
\* number (float() raises), or a number.
Absent == [kind |-> "absent", val |-> 0]
Unusable == [kind |-> "bad", val |-> 0]
Num(v) == [kind |-> "num", val |-> v]

ExpireAtChoices(t) == {Absent, Unusable} \cup {Num(t + d) : d \in ExpireAtOffsets}
ExpiresInChoices == {Absent, Unusable} \cup {Num(v) : v \in ExpiresInValues}

\* Outcomes of the POST to /v1/authenticate up to the access_token check.
AuthFailures == {"network", "status", "no_token"}

TokenValidNoMargin(tok, exp, t) == tok # NoToken /\ t < exp

\* stt_client.py:208 and :213
TokenValid(tok, exp, t) == tok # NoToken /\ t < exp - SafetyMargin

\* stt_client.py:176-191, the candidate loop: the first usable one of
\* (expire_at, expires_in) decides; none when neither is usable.
Candidate(ea, ei, t) ==
    IF ea.kind = "num" THEN [some |-> TRUE, val |-> ea.val]
    ELSE IF ei.kind = "num" THEN [some |-> TRUE, val |-> t + ei.val]
    ELSE [some |-> FALSE, val |-> 0]

\* stt_client.py:175-194
ComputeExpiry(ea, ei, t) ==
    LET c == Candidate(ea, ei, t)
    IN  IF ~c.some \/ c.val <= t THEN t + DefaultLease ELSE c.val

LockAlwaysFree == TRUE

\* asyncio.Lock.acquire returns at once only when the lock is free and
\* nobody is queued for it (stt_client.py:211).
LockFree == token_lock.holder = NoCaller /\ token_lock.waiters = <<>>

\* The access_token string carried by the reply to the k-th refresh request.
Tok(k) == "t" \o ToString(k)

\* The result of a call: kind is "static" (the manual token), "none" (None),
\* "cached" (served from the cache), "fresh" (just refreshed), "error" (raised),
\* "pending" while the call's refresh request is in flight.  usable and live
\* record the cache's expiry against the clock at the moment of the return.
Result(kind, tok, exp, t) ==
    [kind |-> kind, tok |-> tok,
     usable |-> t < exp - SafetyMargin, live |-> t < exp]
NoResult == [kind |-> "nothing", tok |-> "", usable |-> FALSE, live |-> FALSE]
NoStore == [tok |-> NoToken, at |-> 0, asked |-> [some |-> FALSE, val |-> 0]]

ManualTokenIgnored == FALSE

\* stt_client.py:145, 201, 223-224: a static token is configured.
HasManualToken == manual_token # ""

InitToken ==
    /\ deployment \in {"cloud", "onprem"}
    /\ manual_token \in {"", "abc"}
    /\ auth_enabled \in BOOLEAN
    /\ access_token = NoToken
    /\ token_expiry = 0
    /\ token_lock = [holder |-> NoCaller, waiters |-> <<>>]
    /\ now = DefaultLease
    /\ ticks = 0
    /\ pc = [c \in Callers |-> "idle"]
    /\ ret = [c \in Callers |-> NoResult]
    /\ calls = 0
    /\ issued = 0
    /\ ended = 0
    /\ nref = [c \in Callers |-> 0]
    /\ hit = [c \in Callers |-> FALSE]
    /\ got = [c \in Callers |-> NoToken]
    /\ lastStore = NoStore
    /\ racers = {}
    /\ wakeMiss = FALSE
    \* the polling loop is left alone while the token cache is studied
    /\ ppc = "init"
    /\ clock = 0
    /\ interval = 1
    /\ timeout = 1
    /\ deadline = 0
    /\ outcome = "none"
    /\ fetches = 0
    /\ lateFetches = 0
    /\ returns = 0
    /\ sawTerminal = FALSE
    /\ lastStatus = "none"
    /\ enteredAt = 0
    \* no streaming session, no relay
    /\ channel = "none"
    /\ call = "none"
    /\ done_writing = FALSE
    /\ written = <<>>
    /\ recv_queue = <<>>
    /\ recv_task = "none"
    /\ must_cancel = FALSE
    /\ last_error = FALSE
    /\ closed = FALSE
    /\ emitted = <<>>
    /\ sentinels = 0
    /\ releases = 0
    /\ received = <<>>
    /\ sendRes = "none"
    /\ lateSend = "none"
    /\ finishes = 0
    /\ closeCalls = 0
    /\ emittedAtFinish = 0
    /\ ops = 0
    /\ hpc = "off"
    /\ pst = [p \in Pumps |-> "none"]
    /\ pcancel = [p \in Pumps |-> FALSE]
    /\ pres = [p \in Pumps |-> "none"]
    /\ wsClient = "connected"
    /\ wsIn = 0
    /\ wsOut = <<>>
    /\ wsClosed = FALSE
    /\ upstream = "none"
    /\ teardown = <<>>
    /\ raised = {}
    /\ escaped = "none"
    /\ lastText = NoFrame
    \* no batch request is handled
    /\ bpc = "off"
    /\ bHandler = "none"
    /\ bReq = "none"
    /\ bCalls = <<>>
    /\ bSub = NoReply
    /\ bRet = NoReply
    /\ bJob = ""
    /\ bPayload = NoPayload
    /\ bColl = "none"
    /\ bCollOk = FALSE
    /\ bResp = NoResponse
    /\ bKind = "none"
    \* no request uses the client cache
    /\ eSettings = DefaultBackend
    /\ eClient = NoClient
    /\ eClients = <<>>
    /\ eReq = [r \in Requests |-> IdleRequest]
    /\ eSent = {}
    /\ eUpdates = 0
    \* the normalizer is not called
    /\ nPayload = Doc("results", <<>>, NoValue, <<>>)
    /\ nSeg = NotRun
    /\ nTexts = NotRun
    /\ nOut = Doc("results", <<>>, NoValue, <<>>)
    /\ nAgain = NotRun

\* A call returns or raises: the caller is done and ret holds the result.
Finish(c, kind, tok) ==
    /\ pc' = [pc EXCEPT ![c] = "done"]
    /\ ret' = [ret EXCEPT ![c] = Result(kind, tok, token_expiry, now)]

\* The call ends without touching the lock or the auth endpoint; h is the
\* state of the cache at its validity check (FALSE when it made none).
NoRefresh(c, h) ==
    /\ hit' = [hit EXCEPT ![c] = h]
    /\ nref' = [nref EXCEPT ![c] = 0]
    /\ UNCHANGED <<token_lock, issued>>

RecheckSkipped(t) == FALSE

\* stt_client.py:212-213, the validity check repeated under the lock.
Recheck(t) == TokenValid(access_token, token_expiry, t)

\* stt_client.py:212-218, entered holding the lock (lk is the lock, held by c):
\* re-check the cache, return it when valid, else send the refresh request
\* (stt_client.py:164) and wait for the reply, still holding the lock.
UnderLock(c, lk) ==
    /\ hit' = [hit EXCEPT ![c] =
                  access_token # NoToken /\ now < token_expiry - SafetyMargin]
    /\ IF Recheck(now)
       THEN /\ Finish(c, "cached", access_token)
            /\ token_lock' = [lk EXCEPT !.holder = NoCaller]
            /\ nref' = [nref EXCEPT ![c] = 0]
            /\ UNCHANGED issued
       ELSE /\ pc' = [pc EXCEPT ![c] = "post"]
            /\ ret' = [ret EXCEPT ![c] = Result("pending", Tok(issued + 1), 0, 0)]
            /\ token_lock' = lk
            /\ issued' = issued + 1
            /\ nref' = [nref EXCEPT ![c] = 1]

\* stt_client.py:199-218 up to the first suspension point.  A call that
\* takes the lock path before any refresh has ended is one of the racers of
\* the initial cache miss.
EnsureToken(c) ==
    IF HasManualToken
    THEN Finish(c, "static", manual_token) /\ NoRefresh(c, FALSE) /\ UNCHANGED racers
    ELSE IF ~auth_enabled
    THEN Finish(c, "error", "") /\ NoRefresh(c, FALSE) /\ UNCHANGED racers
    ELSE IF TokenValid(access_token, token_expiry, now)
    THEN /\ Finish(c, "cached", access_token)
         /\ NoRefresh(c, access_token # NoToken /\ now < token_expiry - SafetyMargin)
         /\ UNCHANGED racers
    ELSE /\ racers' = (IF ended = 0 THEN racers \cup {c} ELSE racers)
         /\ IF LockFree
            THEN UnderLock(c, [token_lock EXCEPT !.holder = c])
            ELSE /\ pc' = [pc EXCEPT ![c] = "wait"]
                 /\ token_lock' = [token_lock EXCEPT !.waiters = Append(@, c)]
                 /\ hit' = [hit EXCEPT ![c] = FALSE]
                 /\ nref' = [nref EXCEPT ![c] = 0]
                 /\ UNCHANGED <<ret, issued>>

\* stt_client.py:220-228: a caller starts _resolve_access_token.
Call(c) ==
    /\ pc[c] \in {"idle", "done"}
    /\ calls < MaxCalls
    /\ calls' = calls + 1
    /\ IF deployment = "onprem"
       THEN /\ IF HasManualToken
               THEN Finish(c, "static", manual_token)
               ELSE Finish(c, "none", "")
            /\ NoRefresh(c, FALSE)
            /\ UNCHANGED racers
       ELSE IF HasManualToken
       THEN Finish(c, "static", manual_token) /\ NoRefresh(c, FALSE) /\ UNCHANGED racers
       ELSE IF ~auth_enabled
       THEN Finish(c, "none", "") /\ NoRefresh(c, FALSE) /\ UNCHANGED racers
       ELSE EnsureToken(c)
    /\ UNCHANGED <<deployment, manual_token, auth_enabled, access_token,
                   token_expiry, now, ticks, ended, got, lastStore, wakeMiss>>
    /\ UNCHANGED <<pollVars, streamVars, apiVars>>

\* A caller queued on the lock is woken once the lock is released and it is
\* first in the queue (stt_client.py:211), then runs lines 212-218.
Wake(c) ==
    /\ pc[c] = "wait"
    /\ token_lock.holder = NoCaller
    /\ token_lock.waiters # <<>>
    /\ Head(token_lock.waiters) = c
    /\ UnderLock(c, [holder |-> c, waiters |-> Tail(token_lock.waiters)])
    /\ wakeMiss' = (wakeMiss \/ access_token = NoToken
                             \/ now >= token_expiry - SafetyMargin)
    /\ UNCHANGED <<deployment, manual_token, auth_enabled, access_token,
                   token_expiry, now, ticks, calls, ended, got, lastStore, racers>>
    /\ UNCHANGED <<pollVars, streamVars, apiVars>>

\* A failure path that raises without leaving the "async with" block: the
\* lock stays with the caller.
RefreshFailKeepsLock(c, why) ==
    /\ pc[c] = "post"
    /\ Finish(c, "error", "")
    /\ ended' = ended + 1
    /\ UNCHANGED <<access_token, token_expiry, token_lock>>
    /\ UNCHANGED <<deployment, manual_token, auth_enabled, now, ticks, calls,
                   issued, nref, hit, got, lastStore, racers, wakeMiss>>
    /\ UNCHANGED <<pollVars, streamVars, apiVars>>

\* A failure path that drops the cached token before raising.
RefreshFailClears(c, why) ==
    /\ pc[c] = "post"
    /\ Finish(c, "error", "")
    /\ token_lock' = [token_lock EXCEPT !.holder = NoCaller]
    /\ ended' = ended + 1
    /\ access_token' = NoToken
    /\ UNCHANGED token_expiry
    /\ UNCHANGED <<deployment, manual_token, auth_enabled, now, ticks, calls,
                   issued, nref, hit, got, lastStore, racers, wakeMiss>>
    /\ UNCHANGED <<pollVars, streamVars, apiVars>>

\* stt_client.py:164-173: the request fails (network error or timeout), the
\* reply is not 2xx, or the reply carries no access_token.  The exception
\* leaves _refresh_token and _ensure_token, releasing the lock; nothing has
\* been assigned.
RefreshFail(c, why) ==
    /\ pc[c] = "post"
    /\ Finish(c, "error", "")
    /\ token_lock' = [token_lock EXCEPT !.holder = NoCaller]
    /\ ended' = ended + 1
    /\ UNCHANGED <<access_token, token_expiry>>
    /\ UNCHANGED <<deployment, manual_token, auth_enabled, now, ticks, calls,
                   issued, nref, hit, got, lastStore, racers, wakeMiss>>
    /\ UNCHANGED <<pollVars, streamVars, apiVars>>

\* stt_client.py:175-197 and 216-218: the reply carries an access_token and
\* the fields ea (expire_at) and ei (expires_in); the pair is stored and the
\* stored token returned.
RefreshOk(c, ea, ei) ==
    /\ pc[c] = "post"
    /\ access_token' = ret[c].tok
    /\ token_expiry' = ComputeExpiry(ea, ei, now)
    /\ got' = [got EXCEPT ![c] = ret[c].tok]
    /\ lastStore' = [tok |-> ret[c].tok, at |-> now, asked |-> Candidate(ea, ei, now)]
    /\ pc' = [pc EXCEPT ![c] = "done"]
    /\ ret' = [ret EXCEPT ![c] = Result("fresh", access_token', token_expiry', now)]
    /\ token_lock' = [token_lock EXCEPT !.holder = NoCaller]
    /\ ended' = ended + 1
    /\ UNCHANGED <<deployment, manual_token, auth_enabled, now, ticks, calls,
                   issued, nref, hit, racers, wakeMiss>>
    /\ UNCHANGED <<pollVars, streamVars, apiVars>>

\* The wall clock advances.
Tick(d) ==
    /\ ticks < MaxTicks
    /\ ticks' = ticks + 1
    /\ now' = now + d
    /\ UNCHANGED <<deployment, manual_token, auth_enabled, access_token,
                   token_expiry, token_lock, pc, ret, calls, issued, ended, nref,
                   hit, got, lastStore, racers, wakeMiss>>
    /\ UNCHANGED <<pollVars, streamVars, apiVars>>

NextToken ==
    \/ \E c \in Callers : Call(c)
    \/ \E c \in Callers : Wake(c)
    \/ \E c \in Callers, why \in AuthFailures : RefreshFail(c, why)
    \/ \E c \in Callers, ea \in ExpireAtChoices(now), ei \in ExpiresInChoices :
          RefreshOk(c, ea, ei)
    \/ \E d \in TickSteps : Tick(d)

(***************************************************************************)
(* Part 2.  _poll_until_complete (main.py:486-499)                         *)
(***************************************************************************)

\* What a status fetch can answer: result.get("status").
Statuses == {"processing", "completed", "failed"}

AnyStatusEnds(status) == TRUE

\* main.py:495
IsTerminal(status) == status \in {"completed", "failed"}

\* main.py:497
PastDeadline(t, dl) == t > dl

\* main.py:490
Deadline(t, to) == t + to

\* Settings.poll_interval_seconds and poll_timeout_seconds are > 0
\* (config.py:52-53).  stt_api enters _poll_until_complete in the step in which
\* the submit request returns (main.py:1062-1086 has no await in between), so
\* the clock then shows the time that request took.
InitPoll ==
    /\ ppc = "init"
    /\ clock \in 0..MaxLatency
    /\ interval \in 1..MaxInterval
    /\ timeout \in 1..MaxTimeout
    /\ deadline = 0
    /\ outcome = "none"
    /\ fetches = 0
    /\ lateFetches = 0
    /\ returns = 0
    /\ sawTerminal = FALSE
    /\ lastStatus = "none"
    /\ enteredAt = 0
    \* the token cache is left alone while the polling loop is studied
    /\ deployment = "cloud"
    /\ manual_token = ""
    /\ auth_enabled = TRUE
    /\ access_token = NoToken
    /\ token_expiry = 0
    /\ token_lock = [holder |-> NoCaller, waiters |-> <<>>]
    /\ now = DefaultLease
    /\ ticks = 0
    /\ pc = [c \in Callers |-> "idle"]
    /\ ret = [c \in Callers |-> NoResult]
    /\ calls = 0
    /\ issued = 0
    /\ ended = 0
    /\ nref = [c \in Callers |-> 0]
    /\ hit = [c \in Callers |-> FALSE]
    /\ got = [c \in Callers |-> NoToken]
    /\ lastStore = NoStore
    /\ racers = {}
    /\ wakeMiss = FALSE
    \* no streaming session, no relay
    /\ channel = "none"
    /\ call = "none"
    /\ done_writing = FALSE
    /\ written = <<>>
    /\ recv_queue = <<>>
    /\ recv_task = "none"
    /\ must_cancel = FALSE
    /\ last_error = FALSE
    /\ closed = FALSE
    /\ emitted = <<>>
    /\ sentinels = 0
    /\ releases = 0
    /\ received = <<>>
    /\ sendRes = "none"
    /\ lateSend = "none"
    /\ finishes = 0
    /\ closeCalls = 0
    /\ emittedAtFinish = 0
    /\ ops = 0
    /\ hpc = "off"
    /\ pst = [p \in Pumps |-> "none"]
    /\ pcancel = [p \in Pumps |-> FALSE]
    /\ pres = [p \in Pumps |-> "none"]
    /\ wsClient = "connected"
    /\ wsIn = 0
    /\ wsOut = <<>>
    /\ wsClosed = FALSE
    /\ upstream = "none"
    /\ teardown = <<>>
    /\ raised = {}
    /\ escaped = "none"
    /\ lastText = NoFrame
    \* no batch request is handled
    /\ bpc = "off"
    /\ bHandler = "none"
    /\ bReq = "none"
    /\ bCalls = <<>>
    /\ bSub = NoReply
    /\ bRet = NoReply
    /\ bJob = ""
    /\ bPayload = NoPayload
    /\ bColl = "none"
    /\ bCollOk = FALSE
    /\ bResp = NoResponse
    /\ bKind = "none"
    \* no request uses the client cache
    /\ eSettings = DefaultBackend
    /\ eClient = NoClient
    /\ eClients = <<>>
    /\ eReq = [r \in Requests |-> IdleRequest]
    /\ eSent = {}
    /\ eUpdates = 0
    \* the normalizer is not called
    /\ nPayload = Doc("results", <<>>, NoValue, <<>>)
    /\ nSeg = NotRun
    /\ nTexts = NotRun
    /\ nOut = Doc("results", <<>>, NoValue, <<>>)
    /\ nAgain = NotRun

\* main.py:493: client.get_transcription is called at time t.
IssueFetch(t, dl) ==
    /\ fetches' = fetches + 1
    /\ lateFetches' = lateFetches + (IF t > dl THEN 1 ELSE 0)
    /\ ppc' = "await"

\* main.py:490-493: the deadline is computed and the first fetch is issued.
PollEnter ==
    /\ ppc = "init"
    /\ bpc \in {"off", "poll"}
    /\ deadline' = Deadline(clock, timeout)
    /\ IssueFetch(clock, deadline')
    /\ enteredAt' = clock
    /\ UNCHANGED <<clock, interval, timeout, outcome, returns, sawTerminal,
                   lastStatus>>
    /\ UNCHANGED <<tokenVars, streamVars, apiVars>>

FetchReturnDeadlineFirst(status, lat) ==
    /\ ppc = "await"
    /\ clock' = clock + lat
    /\ sawTerminal' = (sawTerminal \/ status \in {"completed", "failed"})
    /\ lastStatus' = status
    /\ IF PastDeadline(clock', deadline)
       THEN /\ ppc' = "done"
            /\ outcome' = "timeout"
            /\ returns' = returns + 1
       ELSE IF IsTerminal(status)
       THEN /\ ppc' = "done"
            /\ outcome' = status
            /\ returns' = returns + 1
       ELSE /\ ppc' = "sleep"
            /\ UNCHANGED <<outcome, returns>>
    /\ UNCHANGED <<interval, timeout, deadline, fetches, lateFetches, enteredAt>>
    /\ UNCHANGED <<tokenVars, streamVars, apiVars>>

\* main.py:493-499: the fetch returns status after lat time units; poll
\* returns the payload, returns None, or goes to sleep.
FetchReturn(status, lat) ==
    /\ ppc = "await"
    /\ clock' = clock + lat
    /\ sawTerminal' = (sawTerminal \/ status \in {"completed", "failed"})
    /\ lastStatus' = status
    /\ IF IsTerminal(status)
       THEN /\ ppc' = "done"
            /\ outcome' = status
            /\ returns' = returns + 1
       ELSE IF PastDeadline(clock', deadline)
       THEN /\ ppc' = "done"
            /\ outcome' = "timeout"
            /\ returns' = returns + 1
       ELSE /\ ppc' = "sleep"
            /\ UNCHANGED <<outcome, returns>>
    /\ UNCHANGED <<interval, timeout, deadline, fetches, lateFetches, enteredAt>>
    /\ UNCHANGED <<tokenVars, streamVars, apiVars>>

\* main.py:493: get_transcription raises (network error, non-2xx reply, token
\* refresh failure); the exception leaves _poll_until_complete.
FetchRaise(lat) ==
    /\ ppc = "await"
    /\ clock' = clock + lat
    /\ ppc' = "done"
    /\ outcome' = "error"
    /\ returns' = returns + 1
    /\ UNCHANGED <<interval, timeout, deadline, fetches, lateFetches, sawTerminal,
                   lastStatus, enteredAt>>
    /\ UNCHANGED <<tokenVars, streamVars, apiVars>>

SleepWakeExtends(over) ==
    /\ ppc = "sleep"
    /\ clock' = clock + interval + over
    /\ deadline' = Deadline(clock', timeout)
    /\ IssueFetch(clock', deadline')
    /\ UNCHANGED <<interval, timeout, outcome, returns, sawTerminal,
                   lastStatus, enteredAt>>
    /\ UNCHANGED <<tokenVars, streamVars, apiVars>>

\* main.py:499 then :493: asyncio.sleep(interval) ends, over time units late,
\* and the loop issues the next fetch.
SleepWake(over) ==
    /\ ppc = "sleep"
    /\ clock' = clock + interval + over
    /\ IssueFetch(clock', deadline)
    /\ UNCHANGED <<interval, timeout, deadline, outcome, returns, sawTerminal,
                   lastStatus, enteredAt>>
    /\ UNCHANGED <<tokenVars, streamVars, apiVars>>

NextPoll ==
    \/ PollEnter
    \/ \E status \in Statuses, lat \in 0..MaxLatency : FetchReturn(status, lat)
    \/ \E lat \in 0..MaxLatency : FetchRaise(lat)
    \/ \E over \in 0..MaxOvershoot : SleepWake(over)

(***************************************************************************)
(* Part 3.  GrpcStreamingSession (stt_client.py:40-130)                    *)
(*                                                                         *)
(* The operations below are the methods of the session; they constrain the *)
(* session variables and the session history and leave the caller's        *)
(* variables to the action that uses them.  A method that awaits only the  *)
(* gRPC call object is one step: nothing else touches the call meanwhile.  *)
(***************************************************************************)

\* A DecoderResponse: its position in the stream, the is_final flag of its
\* first result ("none" when there is no result or the result has no flag)
\* and the value of its speech_event_type.
Response(k, ev) == [n |-> k, fin |-> ev.fin, event |-> ev.event]

\* The responses that the upstream emits: a result that is final, a result
\* that is not, and an event without a flag.
Events ==
    {[fin |-> "true", event |-> 0], [fin |-> "false", event |-> 0],
     [fin |-> "none", event |-> 1]}

\* The None that _recv_loop puts on the queue when its iteration ends.
EndOfStream == [n |-> 0, fin |-> "none", event |-> 0]

\* What "await self._call.write(...)" can do.  The session keeps no state of
\* its own about the write side: the frame is accepted by the call object or
\* the call object raises.
WriteOutcomes == {"ok", "call_error"}

\* A session object as its constructor leaves it (stt_client.py:43-60), not
\* used by any relay.
InitSession ==
    /\ channel = "none"
    /\ call = "none"
    /\ done_writing = FALSE
    /\ written = <<>>
    /\ recv_queue = <<>>
    /\ recv_task = "none"
    /\ must_cancel = FALSE
    /\ last_error = FALSE
    /\ closed = FALSE
    /\ emitted = <<>>
    /\ sentinels = 0
    /\ releases = 0
    /\ received = <<>>
    /\ sendRes = "none"
    /\ lateSend = "none"
    /\ finishes = 0
    /\ closeCalls = 0
    /\ emittedAtFinish = 0
    /\ ops = 0
    /\ hpc = "off"
    /\ pst = [p \in Pumps |-> "none"]
    /\ pcancel = [p \in Pumps |-> FALSE]
    /\ pres = [p \in Pumps |-> "none"]
    /\ wsClient = "connected"
    /\ wsIn = 0
    /\ wsOut = <<>>
    /\ wsClosed = FALSE
    /\ upstream = "none"
    /\ teardown = <<>>
    /\ raised = {}
    /\ escaped = "none"
    /\ lastText = NoFrame
    \* no batch request is handled
    /\ bpc = "off"
    /\ bHandler = "none"
    /\ bReq = "none"
    /\ bCalls = <<>>
    /\ bSub = NoReply
    /\ bRet = NoReply
    /\ bJob = ""
    /\ bPayload = NoPayload
    /\ bColl = "none"
    /\ bCollOk = FALSE
    /\ bResp = NoResponse
    /\ bKind = "none"
    \* no request uses the client cache
    /\ eSettings = DefaultBackend
    /\ eClient = NoClient
    /\ eClients = <<>>
    /\ eReq = [r \in Requests |-> IdleRequest]
    /\ eSent = {}
    /\ eUpdates = 0
    \* the normalizer is not called
    /\ nPayload = Doc("results", <<>>, NoValue, <<>>)
    /\ nSeg = NotRun
    /\ nTexts = NotRun
    /\ nOut = Doc("results", <<>>, NoValue, <<>>)
    /\ nAgain = NotRun
    \* the token cache is left alone here
    /\ deployment = "cloud"
    /\ manual_token = ""
    /\ auth_enabled = TRUE
    /\ access_token = NoToken
    /\ token_expiry = 0
    /\ token_lock = [holder |-> NoCaller, waiters |-> <<>>]
    /\ now = DefaultLease
    /\ ticks = 0
    /\ pc = [c \in Callers |-> "idle"]
    /\ ret = [c \in Callers |-> NoResult]
    /\ calls = 0
    /\ issued = 0
    /\ ended = 0
    /\ nref = [c \in Callers |-> 0]
    /\ hit = [c \in Callers |-> FALSE]
    /\ got = [c \in Callers |-> NoToken]
    /\ lastStore = NoStore
    /\ racers = {}
    /\ wakeMiss = FALSE
    \* no batch job is polled
    /\ ppc = "init"
    /\ clock = 0
    /\ interval = 1
    /\ timeout = 1
    /\ deadline = 0
    /\ outcome = "none"
    /\ fetches = 0
    /\ lateFetches = 0
    /\ returns = 0
    /\ sawTerminal = FALSE
    /\ lastStatus = "none"
    /\ enteredAt = 0

\* stt_client.py:62-86.  ok is FALSE when writing the configuration raises:
\* channel and call are set, the receive task is not created.
Start(ok) ==
    /\ IF channel # "none"
       THEN UNCHANGED <<channel, call, recv_task>>
       ELSE /\ channel' = "open"
            /\ call' = "open"
            /\ recv_task' = IF ok THEN "created" ELSE "none"
    /\ UNCHANGED <<done_writing, written, recv_queue, must_cancel, last_error,
                   closed, emitted>>
    /\ UNCHANGED sessHist

\* stt_client.py:98-103
SendAudio(d, out) ==
    /\ IF call = "none"
       THEN /\ sendRes' = "state_error"
            /\ written' = written
       ELSE /\ sendRes' = out
            /\ written' = IF out = "ok" THEN Append(written, d) ELSE written
    /\ lateSend' = IF finishes > 0 \/ closeCalls > 0 THEN sendRes' ELSE lateSend
    /\ UNCHANGED <<channel, call, done_writing, recv_queue, recv_task, must_cancel,
                   last_error, closed, emitted>>
    /\ UNCHANGED <<sentinels, releases, received, finishes, closeCalls,
                   emittedAtFinish>>

FinishCancels ==
    /\ done_writing' = (done_writing \/ call # "none")
    /\ must_cancel' = (must_cancel \/ recv_task \in {"created", "running"})
    /\ finishes' = finishes + 1
    /\ emittedAtFinish' = IF finishes = 0 THEN Len(emitted) ELSE emittedAtFinish
    /\ UNCHANGED <<channel, call, written, recv_queue, recv_task,
                   last_error, closed, emitted>>
    /\ UNCHANGED <<sentinels, releases, received, sendRes, lateSend, closeCalls>>

\* stt_client.py:105-109: done_writing() on the call, any exception suppressed.
FinishWrites ==
    /\ done_writing' = (done_writing \/ call # "none")
    /\ finishes' = finishes + 1
    /\ emittedAtFinish' = IF finishes = 0 THEN Len(emitted) ELSE emittedAtFinish
    /\ UNCHANGED <<channel, call, written, recv_queue, recv_task, must_cancel,
                   last_error, closed, emitted>>
    /\ UNCHANGED <<sentinels, releases, received, sendRes, lateSend, closeCalls>>

RecvKeepsHead ==
    /\ recv_queue # <<>>
    /\ recv_queue' = IF Head(recv_queue) = EndOfStream THEN Tail(recv_queue)
                     ELSE recv_queue
    /\ received' = Append(received, Head(recv_queue))
    /\ closed' = (closed \/ Head(recv_queue) = EndOfStream)
    /\ UNCHANGED <<channel, call, done_writing, written, recv_task, must_cancel,
                   last_error, emitted>>
    /\ UNCHANGED <<sentinels, releases, sendRes, lateSend, finishes, closeCalls,
                   emittedAtFinish>>

\* stt_client.py:111-116: returns the head of the queue once there is one;
\* the sentinel marks the session closed.
Recv ==
    /\ recv_queue # <<>>
    /\ recv_queue' = Tail(recv_queue)
    /\ received' = Append(received, Head(recv_queue))
    /\ closed' = (closed \/ Head(recv_queue) = EndOfStream)
    /\ UNCHANGED <<channel, call, done_writing, written, recv_task, must_cancel,
                   last_error, emitted>>
    /\ UNCHANGED <<sentinels, releases, sendRes, lateSend, finishes, closeCalls,
                   emittedAtFinish>>

\* Number of handles among receive task, call and channel that exist.
Handles == (IF recv_task # "none" THEN 1 ELSE 0)
           + (IF call # "none" THEN 1 ELSE 0)
           + (IF channel # "none" THEN 1 ELSE 0)

CloseUnguarded ==
    /\ closeCalls' = closeCalls + 1
    /\ closed' = TRUE
    /\ must_cancel' = (must_cancel \/ recv_task \in {"created", "running"})
    /\ call' = IF call = "none" THEN "none" ELSE "closed"
    /\ channel' = IF channel = "none" THEN "none" ELSE "closed"
    /\ releases' = releases + Handles
    /\ UNCHANGED <<done_writing, written, recv_queue, recv_task, last_error,
                   emitted>>
    /\ UNCHANGED <<sentinels, received, sendRes, lateSend, finishes,
                   emittedAtFinish>>

\* stt_client.py:118-130: a no-op when _closed is set; otherwise the receive
\* task is cancelled (a request: it takes effect at the task's next step) and
\* call and channel are closed, exceptions suppressed.
Close ==
    /\ closeCalls' = closeCalls + 1
    /\ IF closed
       THEN UNCHANGED <<closed, must_cancel, call, channel, releases>>
       ELSE /\ closed' = TRUE
            /\ must_cancel' = (must_cancel \/ recv_task \in {"created", "running"})
            /\ call' = IF call = "none" THEN "none" ELSE "closed"
            /\ channel' = IF channel = "none" THEN "none" ELSE "closed"
            /\ releases' = releases + Handles
    /\ UNCHANGED <<done_writing, written, recv_queue, recv_task, last_error,
                   emitted>>
    /\ UNCHANGED <<sentinels, received, sendRes, lateSend, finishes,
                   emittedAtFinish>>

\* stt_client.py:88-91: the first step of the task created by start(): the
\* coroutine enters the try block and waits for the first response.
LoopStart ==
    /\ recv_task = "created"
    /\ ~must_cancel
    /\ recv_task' = "running"
    /\ UNCHANGED <<channel, call, done_writing, written, recv_queue, must_cancel,
                   last_error, closed, emitted>>
    /\ UNCHANGED sessHist

\* stt_client.py:91-92: the call yields its next response and the loop puts
\* it on the queue (the queue is unbounded: put does not suspend).
LoopPut(ev) ==
    /\ recv_task = "running"
    /\ ~must_cancel
    /\ Len(emitted) < MaxResp
    /\ emitted' = Append(emitted, Response(Len(emitted) + 1, ev))
    /\ recv_queue' = Append(recv_queue, Response(Len(emitted) + 1, ev))
    /\ UNCHANGED <<channel, call, done_writing, written, recv_task, must_cancel,
                   last_error, closed>>
    /\ UNCHANGED sessHist

\* stt_client.py:91-96: the iteration ends, normally ("ok") or by an exception
\* ("error"); the finally clause puts the sentinel.
LoopEnd(how) ==
    /\ recv_task = "running"
    /\ ~must_cancel
    /\ last_error' = (last_error \/ how = "error")
    /\ recv_queue' = Append(recv_queue, EndOfStream)
    /\ sentinels' = sentinels + 1
    /\ recv_task' = "done"
    /\ UNCHANGED <<channel, call, done_writing, written, must_cancel, closed,
                   emitted>>
    /\ UNCHANGED <<releases, received, sendRes, lateSend, finishes, closeCalls,
                   emittedAtFinish>>

\* The step of the task after cancel(): CancelledError is thrown into the
\* coroutine.  Thrown at the await of line 91 it passes "except Exception" and
\* runs the finally clause; thrown before the coroutine has started it ends
\* the task without entering the try block.
LoopCancelled ==
    /\ recv_task \in {"created", "running"}
    /\ must_cancel
    /\ must_cancel' = FALSE
    /\ recv_task' = "done"
    /\ IF recv_task = "running"
       THEN /\ recv_queue' = Append(recv_queue, EndOfStream)
            /\ sentinels' = sentinels + 1
       ELSE UNCHANGED <<recv_queue, sentinels>>
    /\ UNCHANGED <<channel, call, done_writing, written, last_error, closed,
                   emitted>>
    /\ UNCHANGED <<releases, received, sendRes, lateSend, finishes, closeCalls,
                   emittedAtFinish>>

\* The consumer has been handed the sentinel.
GotEndOfStream == received # <<>> /\ received[Len(received)] = EndOfStream

\* The state of the session as its fields show it: _closed set; no channel
\* yet; channel and call made but the configuration not written (no receive
\* task); done_writing() called; otherwise streaming.
SessionState ==
    IF closed THEN "Closed"
    ELSE IF channel = "none" THEN "Idle"
    ELSE IF recv_task = "none" THEN "Connecting"
    ELSE IF done_writing THEN "HalfClosed"
    ELSE "Streaming"

(***************************************************************************)
(* A client of the session: one owner calling start, send_audio, finish,   *)
(* close in any order, and one consumer calling recv until EndOfStream.    *)
(***************************************************************************)

ApiStart(ok) ==
    /\ ops < MaxOps
    /\ ops' = ops + 1
    /\ Start(ok)
    /\ UNCHANGED relayVars
    /\ UNCHANGED <<tokenVars, pollVars, apiVars>>

ApiSendAudio(out) ==
    /\ ops < MaxOps
    /\ Len(written) < MaxAudio
    /\ ops' = ops + 1
    /\ SendAudio(Len(written) + 1, out)
    /\ UNCHANGED relayVars
    /\ UNCHANGED <<tokenVars, pollVars, apiVars>>

ApiFinish ==
    /\ ops < MaxOps
    /\ ops' = ops + 1
    /\ FinishWrites
    /\ UNCHANGED relayVars
    /\ UNCHANGED <<tokenVars, pollVars, apiVars>>

ApiClose ==
    /\ ops < MaxOps
    /\ ops' = ops + 1
    /\ Close
    /\ UNCHANGED relayVars
    /\ UNCHANGED <<tokenVars, pollVars, apiVars>>

\* The consumer's recv() returns.
ApiRecv ==
    /\ ~GotEndOfStream
    /\ Recv
    /\ UNCHANGED <<ops, relayVars>>
    /\ UNCHANGED <<tokenVars, pollVars, apiVars>>

RecvLoopStart ==
    /\ LoopStart
    /\ UNCHANGED <<ops, relayVars>>
    /\ UNCHANGED <<tokenVars, pollVars, apiVars>>

RecvLoopPut(ev) ==
    /\ LoopPut(ev)
    /\ UNCHANGED <<ops, relayVars>>
    /\ UNCHANGED <<tokenVars, pollVars, apiVars>>

RecvLoopEnd(how) ==
    /\ LoopEnd(how)
    /\ UNCHANGED <<ops, relayVars>>
    /\ UNCHANGED <<tokenVars, pollVars, apiVars>>

RecvLoopCancelled ==
    /\ LoopCancelled
    /\ UNCHANGED <<ops, relayVars>>
    /\ UNCHANGED <<tokenVars, pollVars, apiVars>>

NextSession ==
    \/ \E ok \in BOOLEAN : ApiStart(ok)
    \/ \E out \in WriteOutcomes : ApiSendAudio(out)
    \/ ApiFinish
    \/ ApiClose
    \/ ApiRecv
    \/ RecvLoopStart
    \/ \E ev \in Events : RecvLoopPut(ev)
    \/ \E how \in {"ok", "error"} : RecvLoopEnd(how)
    \/ RecvLoopCancelled

(***************************************************************************)
(* Part 4.  The streaming relay: streaming_proxy (main.py:921-1021) for    *)
(* the cloud deployment and _handle_onprem_streaming (main.py:799-918) for *)
(* the on-prem one, from the point where the local connection has been     *)
(* accepted (websocket.accept(), main.py:932).                             *)
(*                                                                         *)
(* The handler and its two pump tasks run on one event loop.  task.cancel()*)
(* is a request: the task ends at its own next step.  Whether an await in  *)
(* the handler's teardown suspends is decided by the websocket and gRPC    *)
(* libraries, so the handler's teardown steps and the steps of the tasks   *)
(* interleave freely.                                                      *)
(***************************************************************************)

\* json.dumps({"type": "ready"}), main.py:856
ReadyFrame == [type |-> "ready", msg |-> 0]

\* main.py:851-853, 948-950
ErrorFrame == [type |-> "error", msg |-> 0]

\* A text frame of the cloud upstream, forwarded as it is (main.py:982-987).
CloudFrame(k) == [type |-> "upstream", msg |-> k]

\* json_format.MessageToDict(message, preserving_proto_field_name=True) at
\* main.py:764-766, over the messages of protos/vito_stt_client_pb2: the
\* payload has the is_final of the first result when the result carries the
\* flag, the speech_event_type, and no key named type.
MessageToDict(r) ==
    [results |-> IF r.fin = "none" THEN <<>> ELSE <<[is_final |-> r.fin]>>,
     speech_event_type |-> r.event, n |-> r.n]

\* main.py:714-719: the name of the enumerator, or UNKNOWN_<value> for a
\* value the enumeration does not name.
SpeechEventName(event_value) ==
    CASE event_value = 0 -> "SPEECH_EVENT_UNSPECIFIED"
      [] event_value = 1 -> "END_OF_SINGLE_UTTERANCE"
      [] event_value = 7 -> "UNKNOWN_7"

\* str.lower() on the event names.
LowerName(name) ==
    CASE name = "SPEECH_EVENT_UNSPECIFIED" -> "speech_event_unspecified"
      [] name = "END_OF_SINGLE_UTTERANCE" -> "end_of_single_utterance"
      [] name = "UNKNOWN_7" -> "unknown_7"

\* main.py:722-737: the is_final of the first result, None without one.
InferResultFlags(payload) ==
    IF payload.results # <<>> THEN payload.results[1].is_final ELSE "none"

ApplyDefaultsToPartial(is_final_flag, event_name) ==
    IF is_final_flag = "true" THEN "final" ELSE "partial"

\* main.py:740-757: the type that the payload is given.
ApplyResultAnnotations(is_final_flag, event_name) ==
    IF is_final_flag = "true" THEN "final"
    ELSE IF is_final_flag = "false" THEN "partial"
    ELSE LowerName(event_name)

\* main.py:763-797: the text frame made of one DecoderResponse.
GrpcResponsePayload(r) ==
    LET payload == MessageToDict(r)
        event_name == SpeechEventName(payload.speech_event_type)
    IN  [type |-> ApplyResultAnnotations(InferResultFlags(payload), event_name),
         msg |-> payload.n]

\* What websocket.send_text can do: it succeeds while the client is there;
\* once the client is gone it raises or the frame is dropped silently.
SendOutcomes == IF wsClient = "connected" THEN {TRUE} ELSE {TRUE, FALSE}

EscapesUnsuppressed(cur, exc) == IF exc THEN "teardown" ELSE cur

\* contextlib.suppress(Exception) around each close of the teardown
\* (main.py:914-917, 1018-1021): what leaves the handler is what was leaving
\* it before the close.
Escapes(cur, exc) == cur

\* The handler has accepted the local connection (main.py:932).
InitRelay ==
    /\ channel = "none"
    /\ call = "none"
    /\ done_writing = FALSE
    /\ written = <<>>
    /\ recv_queue = <<>>
    /\ recv_task = "none"
    /\ must_cancel = FALSE
    /\ last_error = FALSE
    /\ closed = FALSE
    /\ emitted = <<>>
    /\ sentinels = 0
    /\ releases = 0
    /\ received = <<>>
    /\ sendRes = "none"
    /\ lateSend = "none"
    /\ finishes = 0
    /\ closeCalls = 0
    /\ emittedAtFinish = 0
    /\ ops = 0
    /\ hpc = "accepted"
    /\ pst = [p \in Pumps |-> "none"]
    /\ pcancel = [p \in Pumps |-> FALSE]
    /\ pres = [p \in Pumps |-> "none"]
    /\ wsClient = "connected"
    /\ wsIn = 0
    /\ wsOut = <<>>
    /\ wsClosed = FALSE
    /\ upstream = "none"
    /\ teardown = <<>>
    /\ raised = {}
    /\ escaped = "none"
    /\ lastText = NoFrame
    \* no batch request is handled
    /\ bpc = "off"
    /\ bHandler = "none"
    /\ bReq = "none"
    /\ bCalls = <<>>
    /\ bSub = NoReply
    /\ bRet = NoReply
    /\ bJob = ""
    /\ bPayload = NoPayload
    /\ bColl = "none"
    /\ bCollOk = FALSE
    /\ bResp = NoResponse
    /\ bKind = "none"
    \* no request uses the client cache
    /\ eSettings = DefaultBackend
    /\ eClient = NoClient
    /\ eClients = <<>>
    /\ eReq = [r \in Requests |-> IdleRequest]
    /\ eSent = {}
    /\ eUpdates = 0
    \* the normalizer is not called
    /\ nPayload = Doc("results", <<>>, NoValue, <<>>)
    /\ nSeg = NotRun
    /\ nTexts = NotRun
    /\ nOut = Doc("results", <<>>, NoValue, <<>>)
    /\ nAgain = NotRun
    \* the token cache is left alone here
    /\ deployment \in {"cloud", "onprem"}
    /\ manual_token = ""
    /\ auth_enabled = TRUE
    /\ access_token = NoToken
    /\ token_expiry = 0
    /\ token_lock = [holder |-> NoCaller, waiters |-> <<>>]
    /\ now = DefaultLease
    /\ ticks = 0
    /\ pc = [c \in Callers |-> "idle"]
    /\ ret = [c \in Callers |-> NoResult]
    /\ calls = 0
    /\ issued = 0
    /\ ended = 0
    /\ nref = [c \in Callers |-> 0]
    /\ hit = [c \in Callers |-> FALSE]
    /\ got = [c \in Callers |-> NoToken]
    /\ lastStore = NoStore
    /\ racers = {}
    /\ wakeMiss = FALSE
    \* no batch job is polled
    /\ ppc = "init"
    /\ clock = 0
    /\ interval = 1
    /\ timeout = 1
    /\ deadline = 0
    /\ outcome = "none"
    /\ fetches = 0
    /\ lateFetches = 0
    /\ returns = 0
    /\ sawTerminal = FALSE
    /\ lastStatus = "none"
    /\ enteredAt = 0

SessionIdle ==
    /\ UNCHANGED sessVars
    /\ UNCHANGED sessHist

\* The pump p ends with result how.
PumpDone(p, how) ==
    /\ pst' = [pst EXCEPT ![p] = "done"]
    /\ pres' = [pres EXCEPT ![p] = how]

\* main.py:802-836: the on-prem handler reads the first frame of the client.
\* A frame without text, with text that is not a JSON object, or with a type
\* that is not a start type is answered with an error frame and a close with
\* code 1007, and the handler returns.
Handshake(frame) ==
    /\ deployment = "onprem"
    /\ hpc = "accepted"
    /\ wsClient = "connected"
    /\ lastText' = frame
    /\ IF StartAccepted(frame)
       THEN /\ hpc' = "connect"
            /\ UNCHANGED <<wsOut, wsClosed>>
       ELSE /\ hpc' = "returned"
            /\ wsOut' = Append(wsOut, ErrorFrame)
            /\ wsClosed' = TRUE
    /\ SessionIdle
    /\ UNCHANGED <<pst, pcancel, pres, wsClient, wsIn, upstream, teardown, raised,
                   escaped, ops>>
    /\ UNCHANGED <<tokenVars, pollVars, apiVars>>

\* main.py:803-806: the client is gone before its first frame: the handler
\* returns.
HandshakeDisconnect ==
    /\ deployment = "onprem"
    /\ hpc = "accepted"
    /\ wsClient = "gone"
    /\ hpc' = "returned"
    /\ SessionIdle
    /\ UNCHANGED <<pst, pcancel, pres, wsClient, wsIn, wsOut, wsClosed, upstream,
                   teardown, raised, escaped, ops, lastText>>
    /\ UNCHANGED <<tokenVars, pollVars, apiVars>>

\* main.py:840-856 / 936-951: the upstream session is opened.  On failure the
\* client is sent an error frame and closed with code 1011.  On success the
\* cloud handler starts its pumps at once; the on-prem one first sends ready.
Connect(ok) ==
    /\ hpc = IF deployment = "onprem" THEN "connect" ELSE "accepted"
    /\ IF deployment = "onprem"
       THEN /\ Start(ok)
            /\ UNCHANGED upstream
       ELSE /\ upstream' = IF ok THEN "open" ELSE "none"
            /\ SessionIdle
    /\ IF ~ok
       THEN /\ hpc' = "returned"
            /\ wsOut' = Append(wsOut, ErrorFrame)
            /\ wsClosed' = TRUE
            /\ UNCHANGED pst
       ELSE IF deployment = "onprem"
       THEN /\ hpc' = "ready"
            /\ UNCHANGED <<wsOut, wsClosed, pst>>
       ELSE /\ hpc' = "wait"
            /\ pst' = [p \in Pumps |-> "run"]
            /\ UNCHANGED <<wsOut, wsClosed>>
    /\ UNCHANGED <<pcancel, pres, wsClient, wsIn, teardown, raised, escaped, ops, lastText>>
    /\ UNCHANGED <<tokenVars, pollVars, apiVars>>

\* main.py:856, 902-908: the ready frame is sent, the pumps are created and
\* the handler waits.  The send is outside the try block: when it raises the
\* exception leaves the handler.
SendReady(ok) ==
    /\ hpc = "ready"
    /\ IF ok
       THEN /\ hpc' = "wait"
            /\ wsOut' = Append(wsOut, ReadyFrame)
            /\ pst' = [p \in Pumps |-> "run"]
            /\ UNCHANGED escaped
       ELSE /\ hpc' = "returned"
            /\ escaped' = "ready"
            /\ UNCHANGED <<wsOut, pst>>
    /\ SessionIdle
    /\ UNCHANGED <<pcancel, pres, wsClient, wsIn, wsClosed, upstream, teardown,
                   raised, ops, lastText>>
    /\ UNCHANGED <<tokenVars, pollVars, apiVars>>

\* The local client goes away.
ClientDisconnects ==
    /\ wsClient = "connected"
    /\ hpc # "returned"
    /\ wsClient' = "gone"
    /\ SessionIdle
    /\ UNCHANGED <<hpc, pst, pcancel, pres, wsIn, wsOut, wsClosed, upstream,
                   teardown, raised, escaped, ops, lastText>>
    /\ UNCHANGED <<tokenVars, pollVars, apiVars>>

\* The cloud upstream closes the connection.
UpstreamDrops ==
    /\ upstream = "open"
    /\ hpc = "wait"
    /\ upstream' = "dropped"
    /\ SessionIdle
    /\ UNCHANGED <<hpc, pst, pcancel, pres, wsClient, wsIn, wsOut, wsClosed,
                   teardown, raised, escaped, ops, lastText>>
    /\ UNCHANGED <<tokenVars, pollVars, apiVars>>

Running(p) == pst[p] = "run" /\ ~pcancel[p]

\* main.py:861-870: relay_client_to_grpc receives a binary frame and writes
\* it upstream; an exception of the write ends the pump (main.py:883-885).
C2GAudio(out) ==
    /\ deployment = "onprem"
    /\ Running("c2u")
    /\ wsClient = "connected"
    /\ wsIn < MaxAudio
    /\ wsIn' = wsIn + 1
    /\ SendAudio(wsIn + 1, out)
    /\ IF sendRes' = "ok"
       THEN UNCHANGED <<pst, pres>>
       ELSE PumpDone("c2u", "error")
    /\ UNCHANGED <<hpc, pcancel, wsClient, wsOut, wsClosed, upstream, teardown,
                   raised, escaped, ops, lastText>>
    /\ UNCHANGED <<tokenVars, pollVars, apiVars>>

\* main.py:871-880: a text frame that is a terminal marker: finish() and the
\* pump returns.
C2GMarker(frame) ==
    /\ deployment = "onprem"
    /\ Running("c2u")
    /\ wsClient = "connected"
    /\ IsMarker(frame)
    /\ lastText' = frame
    /\ FinishWrites
    /\ PumpDone("c2u", "ok")
    /\ UNCHANGED <<hpc, pcancel, wsClient, wsIn, wsOut, wsClosed, upstream,
                   teardown, raised, escaped, ops>>
    /\ UNCHANGED <<tokenVars, pollVars, apiVars>>

\* main.py:871-878: any other text frame is skipped and the pump receives the
\* next frame.
C2GIgnored(frame) ==
    /\ deployment = "onprem"
    /\ Running("c2u")
    /\ wsClient = "connected"
    /\ ~IsMarker(frame)
    /\ lastText' = frame
    /\ SessionIdle
    /\ UNCHANGED <<hpc, pst, pcancel, pres, wsClient, wsIn, wsOut, wsClosed, upstream,
                   teardown, raised, escaped, ops>>
    /\ UNCHANGED <<tokenVars, pollVars, apiVars>>

\* main.py:862-863, 881-882: the disconnect reaches the pump.
C2GDisconnect ==
    /\ deployment = "onprem"
    /\ Running("c2u")
    /\ wsClient = "gone"
    /\ PumpDone("c2u", "ok")
    /\ SessionIdle
    /\ UNCHANGED <<hpc, pcancel, wsClient, wsIn, wsOut, wsClosed, upstream,
                   teardown, raised, escaped, ops, lastText>>
    /\ UNCHANGED <<tokenVars, pollVars, apiVars>>

\* main.py:887-900: relay_grpc_to_client takes the next message of the
\* session; the sentinel ends the pump, any other message is sent to the
\* client as a text frame; a send that raises ends the pump.
G2CRecv(ok) ==
    /\ deployment = "onprem"
    /\ Running("u2c")
    /\ Recv
    /\ IF Head(recv_queue) = EndOfStream
       THEN /\ PumpDone("u2c", "ok")
            /\ UNCHANGED wsOut
       ELSE IF ok
       THEN /\ wsOut' = Append(wsOut, GrpcResponsePayload(Head(recv_queue)))
            /\ UNCHANGED <<pst, pres>>
       ELSE /\ PumpDone("u2c", "ok")
            /\ UNCHANGED wsOut
    /\ UNCHANGED <<hpc, pcancel, wsClient, wsIn, wsClosed, upstream, teardown,
                   raised, escaped, ops, lastText>>
    /\ UNCHANGED <<tokenVars, pollVars, apiVars>>

\* main.py:960-971 and 979-987: a cloud pump forwards one frame.
CloudForward(p) ==
    /\ deployment = "cloud"
    /\ Running(p)
    /\ wsClient = "connected"
    /\ upstream = "open"
    /\ IF p = "c2u"
       THEN /\ wsIn < MaxAudio
            /\ wsIn' = wsIn + 1
            /\ UNCHANGED wsOut
       ELSE /\ Len(wsOut) < MaxResp
            /\ wsOut' = Append(wsOut, CloudFrame(Len(wsOut) + 1))
            /\ UNCHANGED wsIn
    /\ SessionIdle
    /\ UNCHANGED <<hpc, pst, pcancel, pres, wsClient, wsClosed, upstream,
                   teardown, raised, escaped, ops, lastText>>
    /\ UNCHANGED <<tokenVars, pollVars, apiVars>>

\* main.py:962-963, 972-977 and 988-994: a cloud pump ends: on the disconnect
\* of the client or the close of the upstream (swallowed), or on any other
\* exception (raised again).
CloudPumpEnds(p, how) ==
    /\ deployment = "cloud"
    /\ Running(p)
    /\ how = "ok" => (wsClient = "gone" \/ upstream = "dropped")
    /\ PumpDone(p, how)
    /\ SessionIdle
    /\ UNCHANGED <<hpc, pcancel, wsClient, wsIn, wsOut, wsClosed, upstream,
                   teardown, raised, escaped, ops, lastText>>
    /\ UNCHANGED <<tokenVars, pollVars, apiVars>>

\* The step of a pump after cancel(): CancelledError is not caught by the
\* pump's except clauses and ends the task.
PumpCancelled(p) ==
    /\ pst[p] = "run"
    /\ pcancel[p]
    /\ PumpDone(p, "cancelled")
    /\ pcancel' = [pcancel EXCEPT ![p] = FALSE]
    /\ SessionIdle
    /\ UNCHANGED <<hpc, wsClient, wsIn, wsOut, wsClosed, upstream, teardown,
                   raised, escaped, ops, lastText>>
    /\ UNCHANGED <<tokenVars, pollVars, apiVars>>

\* main.py:907-913 / 1000-1013: asyncio.wait returns once a pump is done; the
\* pending pumps are cancelled and the results of the done ones are read.  The
\* on-prem handler lets a pump's exception propagate (after the finally
\* clause); the cloud handler swallows it.
WaitReturns ==
    /\ hpc = "wait"
    /\ \E p \in Pumps : pst[p] = "done"
    /\ pcancel' = [p \in Pumps |-> pst[p] = "run"]
    /\ teardown' = Append(teardown, "cancel")
    /\ escaped' = IF deployment = "onprem" /\ (\E p \in Pumps : pres[p] = "error")
                  THEN "pump" ELSE escaped
    /\ hpc' = "close_upstream"
    /\ SessionIdle
    /\ UNCHANGED <<pst, pres, wsClient, wsIn, wsOut, wsClosed, upstream, raised, ops, lastText>>
    /\ UNCHANGED <<tokenVars, pollVars, apiVars>>

\* main.py:914-915 / 1016-1019: the upstream is closed, an exception of the
\* close suppressed.  GrpcStreamingSession.close suppresses the exceptions of
\* its own steps and raises none.
CloseUpstream(exc) ==
    /\ hpc = "close_upstream"
    /\ exc => deployment = "cloud"
    /\ IF deployment = "onprem"
       THEN /\ Close
            /\ UNCHANGED upstream
       ELSE /\ upstream' = "closed"
            /\ SessionIdle
    /\ teardown' = Append(teardown, "close_upstream")
    /\ raised' = raised \cup (IF exc THEN {"close_upstream"} ELSE {})
    /\ escaped' = Escapes(escaped, exc)
    /\ hpc' = "close_local"
    /\ UNCHANGED <<pst, pcancel, pres, wsClient, wsIn, wsOut, wsClosed, ops, lastText>>
    /\ UNCHANGED <<tokenVars, pollVars, apiVars>>

\* main.py:916-918 / 1020-1021: the local connection is closed, an exception
\* of the close suppressed, and the handler returns.
CloseLocal(exc) ==
    /\ hpc = "close_local"
    /\ wsClosed' = TRUE
    /\ teardown' = Append(teardown, "close_local")
    /\ raised' = raised \cup (IF exc THEN {"close_local"} ELSE {})
    /\ escaped' = Escapes(escaped, exc)
    /\ hpc' = "returned"
    /\ SessionIdle
    /\ UNCHANGED <<pst, pcancel, pres, wsClient, wsIn, wsOut, upstream, ops, lastText>>
    /\ UNCHANGED <<tokenVars, pollVars, apiVars>>

NextRelay ==
    \/ \E frame \in TextFrames \cup {BinaryFrame} : Handshake(frame)
    \/ HandshakeDisconnect
    \/ \E ok \in BOOLEAN : Connect(ok)
    \/ \E ok \in SendOutcomes : SendReady(ok)
    \/ ClientDisconnects
    \/ UpstreamDrops
    \/ \E out \in WriteOutcomes : C2GAudio(out)
    \/ \E frame \in TextFrames : C2GMarker(frame)
    \/ \E frame \in TextFrames : C2GIgnored(frame)
    \/ C2GDisconnect
    \/ \E ok \in SendOutcomes : G2CRecv(ok)
    \/ \E p \in Pumps : CloudForward(p)
    \/ \E p \in Pumps, how \in {"ok", "error"} : CloudPumpEnds(p, how)
    \/ \E p \in Pumps : PumpCancelled(p)
    \/ RecvLoopStart
    \/ \E ev \in Events : RecvLoopPut(ev)
    \/ \E how \in {"ok", "error"} : RecvLoopEnd(how)
    \/ RecvLoopCancelled
    \/ WaitReturns
    \/ \E exc \in BOOLEAN : CloseUpstream(exc)
    \/ \E exc \in BOOLEAN : CloseLocal(exc)

(***************************************************************************)
(* Part 5.  The batch handlers: stt_api (main.py:1024-1135) and            *)
(* proxy_transcribe (main.py:599-643), with RTZRClient.submit_transcription*)
(* (stt_client.py:396-426) and _post_to_collector (main.py:553-588).       *)
(* stt_api polls with _poll_until_complete, Part 2.                        *)
(***************************************************************************)

\* main.py:181-182
SUCCESS_CODE == 0
FAILURE_CODE == 0 - 1

\* The audio string of a request to /stt_api is described by two flags:
\* foreign, it has characters outside the base64 alphabet, and aligned, what
\* is left without them is a whole number of correctly padded groups of four.
\* base64.b64decode(s) with validate left at False (main.py:1036): characters
\* outside the alphabet are discarded, then binascii.Error is raised unless
\* the rest is correctly padded.
B64DecodeRaises(audio) == ~audio.aligned

\* main.py:608-621.  An upload to /v1/transcribe: the file is empty or not,
\* and the config form field is blank, not JSON, JSON that is not an object,
\* or a JSON object.
UploadRejected(upload) == upload.empty \/ upload.config \in {"invalid", "list"}

\* The replies to the submit request that are tried.
SubmitReplies ==
    {Reply("unreachable", Missing, Missing, Missing),
     Reply("non2xx", "A", Missing, Missing),
     Reply("ok", Missing, Missing, Missing),
     Reply("ok", "", Missing, ""),
     Reply("ok", "A", Missing, Missing),
     Reply("ok", Missing, "B", Missing),
     Reply("ok", Missing, Missing, "C"),
     Reply("ok", "", "B", "C"),
     Reply("ok", "A", "B", "C"),
     Reply("ok", "A", Missing, "")}

\* stt_client.py:420
JobId(payload) ==
    IF ~Falsy(payload.id) THEN payload.id
    ELSE IF ~Falsy(payload.tid) THEN payload.tid
    ELSE IF ~Falsy(payload.transcribe_id) THEN payload.transcribe_id
    ELSE ""

\* stt_client.py:403, 411-422: the token cannot be had, the post raises,
\* raise_for_status raises, or no job id is found.
SubmitRaises(tok, reply) ==
    \/ tok = "raised"
    \/ reply.http # "ok"
    \/ JobId(reply) = ""

\* stt_client.py:423-425: the payload that submit_transcription returns.
SubmitReturn(reply) ==
    [reply EXCEPT !.transcribe_id = IF @ = Missing THEN JobId(reply) ELSE @]

\* main.py:1065-1069
TranscribeIdOf(submission) ==
    IF ~Falsy(submission.transcribe_id) THEN submission.transcribe_id
    ELSE IF ~Falsy(submission.id) THEN submission.id
    ELSE IF ~Falsy(submission.tid) THEN submission.tid
    ELSE ""

\* The requests that submit_transcription sends upstream.
SubmitCalls(tok) ==
    (IF tok = "cached" THEN <<>> ELSE <<"token">>)
    \o (IF tok = "raised" THEN <<>> ELSE <<"submit">>)

\* The final status payloads that are tried.
StatusPayloads ==
    {StatusPayload("completed", <<"hello">>, <<>>, <<>>),
     StatusPayload("completed", <<>>, <<>>, <<>>),
     StatusPayload("failed", <<"hello">>, <<"boom">>, <<>>),
     StatusPayload("failed", <<>>, <<"boom">>, <<"bad">>),
     StatusPayload("failed", <<>>, <<>>, <<"bad">>),
     StatusPayload("failed", <<>>, <<>>, <<>>),
     StatusPayload("failed", <<>>, TimeoutMessage, <<>>)}

\* What the collector does with the notification: it is not configured, the
\* request raises, the status is not 200, the body is not JSON, the body is
\* JSON but not an object, or the body is an object with code 0 or another
\* code.
CollectorOutcomes ==
    {"disabled", "request_error", "non200", "not_json", "not_object",
     "code_other", "code0"}

\* main.py:553-588.  body.get raises AttributeError when the JSON body is not
\* an object; only ValueError is caught around response.json().
PostToCollectorRaises(coll) == coll = "not_object"
PostToCollector(coll) == coll \in {"disabled", "code0"}

\* main.py:478-483
BuildFailureResponse(message) == Responded("response", FAILURE_CODE, message)

\* main.py:1119-1135: the response made of the final payload.
FinalResponse(payload) ==
    IF payload.status # "completed"
    THEN Responded("response", FAILURE_CODE,
                   IF payload.text # <<>> THEN payload.text
                   ELSE IF payload.message # <<>> THEN payload.message
                   ELSE IF payload.error # <<>> THEN payload.error
                   ELSE <<"Transcription failed.">>)
    ELSE Responded("response", SUCCESS_CODE, payload.text)

\* A request has reached one of the two handlers.
InitBatch ==
    /\ bpc = "recv"
    /\ bHandler = "none"
    /\ bReq = "none"
    /\ bCalls = <<>>
    /\ bSub = NoReply
    /\ bRet = NoReply
    /\ bJob = ""
    /\ bPayload = NoPayload
    /\ bColl = "none"
    /\ bCollOk = FALSE
    /\ bResp = NoResponse
    /\ bKind = "none"
    \* no request uses the client cache
    /\ eSettings = DefaultBackend
    /\ eClient = NoClient
    /\ eClients = <<>>
    /\ eReq = [r \in Requests |-> IdleRequest]
    /\ eSent = {}
    /\ eUpdates = 0
    \* the normalizer is not called
    /\ nPayload = Doc("results", <<>>, NoValue, <<>>)
    /\ nSeg = NotRun
    /\ nTexts = NotRun
    /\ nOut = Doc("results", <<>>, NoValue, <<>>)
    /\ nAgain = NotRun
    \* _poll_until_complete has not been entered
    /\ ppc = "init"
    /\ clock = 0
    /\ interval = 1
    /\ timeout = 1
    /\ deadline = 0
    /\ outcome = "none"
    /\ fetches = 0
    /\ lateFetches = 0
    /\ returns = 0
    /\ sawTerminal = FALSE
    /\ lastStatus = "none"
    /\ enteredAt = 0
    \* the token cache is left alone here
    /\ deployment = "cloud"
    /\ manual_token = ""
    /\ auth_enabled = TRUE
    /\ access_token = NoToken
    /\ token_expiry = 0
    /\ token_lock = [holder |-> NoCaller, waiters |-> <<>>]
    /\ now = DefaultLease
    /\ ticks = 0
    /\ pc = [c \in Callers |-> "idle"]
    /\ ret = [c \in Callers |-> NoResult]
    /\ calls = 0
    /\ issued = 0
    /\ ended = 0
    /\ nref = [c \in Callers |-> 0]
    /\ hit = [c \in Callers |-> FALSE]
    /\ got = [c \in Callers |-> NoToken]
    /\ lastStore = NoStore
    /\ racers = {}
    /\ wakeMiss = FALSE
    \* no streaming session, no relay
    /\ channel = "none"
    /\ call = "none"
    /\ done_writing = FALSE
    /\ written = <<>>
    /\ recv_queue = <<>>
    /\ recv_task = "none"
    /\ must_cancel = FALSE
    /\ last_error = FALSE
    /\ closed = FALSE
    /\ emitted = <<>>
    /\ sentinels = 0
    /\ releases = 0
    /\ received = <<>>
    /\ sendRes = "none"
    /\ lateSend = "none"
    /\ finishes = 0
    /\ closeCalls = 0
    /\ emittedAtFinish = 0
    /\ ops = 0
    /\ hpc = "off"
    /\ pst = [p \in Pumps |-> "none"]
    /\ pcancel = [p \in Pumps |-> FALSE]
    /\ pres = [p \in Pumps |-> "none"]
    /\ wsClient = "connected"
    /\ wsIn = 0
    /\ wsOut = <<>>
    /\ wsClosed = FALSE
    /\ upstream = "none"
    /\ teardown = <<>>
    /\ raised = {}
    /\ escaped = "none"
    /\ lastText = NoFrame

\* The handler returns response; kind names the way the request ended.
BatchReturn(response, kind) ==
    /\ bpc' = "done"
    /\ bResp' = response
    /\ bKind' = kind

\* main.py:1032-1038: the language and the audio of the request are checked.
SttValidate(lang, audio) ==
    /\ bpc = "recv"
    /\ bHandler' = "stt_api"
    /\ bReq' = [lang |-> lang, audio |-> audio]
    /\ IF Lower(lang) # Text("korean", FALSE, FALSE)
       THEN BatchReturn(BuildFailureResponse(
                <<"Unsupported language_code. Expected 'korean'.">>), "rejected")
       ELSE IF B64DecodeRaises(audio)
       THEN BatchReturn(BuildFailureResponse(
                <<"Invalid base64-encoded audio payload.">>), "rejected")
       ELSE /\ bpc' = "submit"
            /\ UNCHANGED <<bResp, bKind>>
    /\ UNCHANGED <<bCalls, bSub, bRet, bJob, bPayload, bColl, bCollOk>>
    /\ UNCHANGED pollVars
    /\ UNCHANGED <<tokenVars, streamVars, endpointVars, normVars>>

\* main.py:1060-1071, 1086: the job is submitted; the text of the exception
\* of a failing submit goes into the message.
SttSubmit(tok, reply, detail) ==
    /\ bpc = "submit"
    /\ bHandler = "stt_api"
    /\ bCalls' = bCalls \o SubmitCalls(tok)
    /\ bSub' = IF tok = "raised" THEN NoReply ELSE reply
    /\ IF SubmitRaises(tok, reply)
       THEN /\ BatchReturn(BuildFailureResponse(
                   <<"Failed to submit transcription job:">> \o detail),
                   "submit_failed")
            /\ UNCHANGED <<bRet, bJob>>
       ELSE /\ bRet' = SubmitReturn(reply)
            /\ IF TranscribeIdOf(bRet') = ""
               THEN /\ BatchReturn(BuildFailureResponse(
                           <<"Upstream response did not include transcribe_id.">>),
                           "submit_failed")
                    /\ UNCHANGED bJob
               ELSE /\ bJob' = TranscribeIdOf(bRet')
                    /\ bpc' = "poll"
                    /\ UNCHANGED <<bResp, bKind>>
    /\ UNCHANGED <<bHandler, bReq, bPayload, bColl, bCollOk>>
    /\ UNCHANGED pollVars
    /\ UNCHANGED <<tokenVars, streamVars, endpointVars, normVars>>

\* main.py:1086: get_transcription raised inside _poll_until_complete; stt_api
\* has no except clause around the call.
SttPollRaised ==
    /\ bpc = "poll"
    /\ ppc = "done"
    /\ outcome = "error"
    /\ BatchReturn(Responded("exception", 0, <<>>), "fetch_failed")
    /\ UNCHANGED <<bHandler, bReq, bCalls, bSub, bRet, bJob, bPayload, bColl, bCollOk>>
    /\ UNCHANGED pollVars
    /\ UNCHANGED <<tokenVars, streamVars, endpointVars, normVars>>

\* main.py:1088-1089: _poll_until_complete returned None.
SttTimeout ==
    /\ bpc = "poll"
    /\ ppc = "done"
    /\ outcome = "timeout"
    /\ BatchReturn(BuildFailureResponse(TimeoutMessage), "timeout")
    /\ UNCHANGED <<bHandler, bReq, bCalls, bSub, bRet, bJob, bPayload, bColl, bCollOk>>
    /\ UNCHANGED pollVars
    /\ UNCHANGED <<tokenVars, streamVars, endpointVars, normVars>>

\* main.py:1091-1135: the final payload is stored, the collector is notified
\* and the response is made.
SttFinish(payload, coll) ==
    /\ bpc = "poll"
    /\ ppc = "done"
    /\ outcome \in {"completed", "failed"}
    /\ payload.status = outcome
    /\ bPayload' = payload
    /\ bColl' = coll
    /\ IF PostToCollectorRaises(coll)
       THEN /\ BatchReturn(Responded("exception", 0, <<>>), "collector_raised")
            /\ UNCHANGED bCollOk
       ELSE /\ bCollOk' = PostToCollector(coll)
            /\ BatchReturn(FinalResponse(payload),
                           IF payload.status = "completed" THEN "completed"
                           ELSE "upstream_failed")
    /\ UNCHANGED <<bHandler, bReq, bCalls, bSub, bRet, bJob>>
    /\ UNCHANGED pollVars
    /\ UNCHANGED <<tokenVars, streamVars, endpointVars, normVars>>

\* main.py:607-621: the uploaded file and the config field are checked.
UploadValidate(upload) ==
    /\ bpc = "recv"
    /\ bHandler' = "transcribe"
    /\ bReq' = upload
    /\ IF UploadRejected(upload)
       THEN BatchReturn(Responded("http_error", 400, <<>>), "rejected")
       ELSE /\ bpc' = "submit"
            /\ UNCHANGED <<bResp, bKind>>
    /\ UNCHANGED <<bCalls, bSub, bRet, bJob, bPayload, bColl, bCollOk>>
    /\ UNCHANGED pollVars
    /\ UNCHANGED <<tokenVars, streamVars, endpointVars, normVars>>

\* main.py:623-643: the upload is submitted and the upstream payload returned.
UploadSubmit(tok, reply) ==
    /\ bpc = "submit"
    /\ bHandler = "transcribe"
    /\ bCalls' = bCalls \o SubmitCalls(tok)
    /\ bSub' = IF tok = "raised" THEN NoReply ELSE reply
    /\ IF SubmitRaises(tok, reply)
       THEN /\ BatchReturn(Responded("http_error", 502, <<>>), "submit_failed")
            /\ UNCHANGED bRet
       ELSE /\ bRet' = SubmitReturn(reply)
            /\ BatchReturn(Responded("payload", SUCCESS_CODE, <<>>), "completed")
    /\ UNCHANGED <<bHandler, bReq, bJob, bPayload, bColl, bCollOk>>
    /\ UNCHANGED pollVars
    /\ UNCHANGED <<tokenVars, streamVars, endpointVars, normVars>>

\* The token outcomes are those of _resolve_access_token inside
\* submit_transcription (Part 1): a token is at hand without a request, a
\* refresh request is made and answered, or the refresh raises.
NextBatch ==
    \/ \E lang \in {Text("korean", FALSE, FALSE), Text("korean", FALSE, TRUE),
                    Text("korean", TRUE, FALSE), Text("english", FALSE, FALSE)},
          audio \in [foreign : BOOLEAN, aligned : BOOLEAN] :
          SttValidate(lang, audio)
    \/ \E tok \in {"cached", "refreshed", "raised"}, reply \in SubmitReplies,
          detail \in {<<"boom">>} : SttSubmit(tok, reply, detail)
    \/ PollEnter
    \/ \E status \in Statuses, lat \in 0..MaxLatency : FetchReturn(status, lat)
    \/ \E lat \in 0..MaxLatency : FetchRaise(lat)
    \/ \E over \in 0..MaxOvershoot : SleepWake(over)
    \/ SttPollRaised
    \/ SttTimeout
    \/ \E payload \in StatusPayloads, coll \in CollectorOutcomes :
          SttFinish(payload, coll)
    \/ \E upload \in [empty : BOOLEAN,
                       config : {"blank", "invalid", "list", "object"}] :
          UploadValidate(upload)
    \/ \E tok \in {"cached", "refreshed", "raised"}, reply \in SubmitReplies :
          UploadSubmit(tok, reply)

(***************************************************************************)
(* Part 6.  The cached backend client: _get_client and _reset_client       *)
(* (main.py:246-261), set_backend_endpoint and reset_backend_endpoint      *)
(* (main.py:200-243), apply_backend_override and clear_backend_override    *)
(* (config.py:181-207).                                                    *)
(*                                                                         *)
(* All handlers are coroutines of one event loop.  The two endpoint        *)
(* handlers contain no await, and no handler awaits between get_settings() *)
(* and _get_client(settings) (main.py:605-606, 648-649, 924-931,           *)
(* 1028-1048), so each of them is one step.                                *)
(***************************************************************************)

\* stt_client.py:135-152: a new RTZRClient keeps the api base of the settings
\* it is built from and has no token.
NewClient(s) == [base |-> s, token |-> "none"]

ResetClientKeeps == eClient' = eClient

\* main.py:256-260
ResetClient == eClient' = NoClient

\* A request has not started; no client has been built; the default settings
\* are in force.
InitEndpoint ==
    /\ eSettings = DefaultBackend
    /\ eClient = NoClient
    /\ eClients = <<>>
    /\ eReq = [r \in Requests |-> IdleRequest]
    /\ eSent = {}
    /\ eUpdates = 0
    /\ nPayload = Doc("results", <<>>, NoValue, <<>>)
    /\ nSeg = NotRun
    /\ nTexts = NotRun
    /\ nOut = Doc("results", <<>>, NoValue, <<>>)
    /\ nAgain = NotRun
    \* no batch job is polled
    /\ ppc = "init"
    /\ clock = 0
    /\ interval = 1
    /\ timeout = 1
    /\ deadline = 0
    /\ outcome = "none"
    /\ fetches = 0
    /\ lateFetches = 0
    /\ returns = 0
    /\ sawTerminal = FALSE
    /\ lastStatus = "none"
    /\ enteredAt = 0
    \* the token cache is left alone here
    /\ deployment = "cloud"
    /\ manual_token = ""
    /\ auth_enabled = TRUE
    /\ access_token = NoToken
    /\ token_expiry = 0
    /\ token_lock = [holder |-> NoCaller, waiters |-> <<>>]
    /\ now = DefaultLease
    /\ ticks = 0
    /\ pc = [c \in Callers |-> "idle"]
    /\ ret = [c \in Callers |-> NoResult]
    /\ calls = 0
    /\ issued = 0
    /\ ended = 0
    /\ nref = [c \in Callers |-> 0]
    /\ hit = [c \in Callers |-> FALSE]
    /\ got = [c \in Callers |-> NoToken]
    /\ lastStore = NoStore
    /\ racers = {}
    /\ wakeMiss = FALSE
    \* no streaming session, no relay
    /\ channel = "none"
    /\ call = "none"
    /\ done_writing = FALSE
    /\ written = <<>>
    /\ recv_queue = <<>>
    /\ recv_task = "none"
    /\ must_cancel = FALSE
    /\ last_error = FALSE
    /\ closed = FALSE
    /\ emitted = <<>>
    /\ sentinels = 0
    /\ releases = 0
    /\ received = <<>>
    /\ sendRes = "none"
    /\ lateSend = "none"
    /\ finishes = 0
    /\ closeCalls = 0
    /\ emittedAtFinish = 0
    /\ ops = 0
    /\ hpc = "off"
    /\ pst = [p \in Pumps |-> "none"]
    /\ pcancel = [p \in Pumps |-> FALSE]
    /\ pres = [p \in Pumps |-> "none"]
    /\ wsClient = "connected"
    /\ wsIn = 0
    /\ wsOut = <<>>
    /\ wsClosed = FALSE
    /\ upstream = "none"
    /\ teardown = <<>>
    /\ raised = {}
    /\ escaped = "none"
    /\ lastText = NoFrame
    \* no batch request is handled
    /\ bpc = "off"
    /\ bHandler = "none"
    /\ bReq = "none"
    /\ bCalls = <<>>
    /\ bSub = NoReply
    /\ bRet = NoReply
    /\ bJob = ""
    /\ bPayload = NoPayload
    /\ bColl = "none"
    /\ bCollOk = FALSE
    /\ bResp = NoResponse
    /\ bKind = "none"

\* main.py:200-232 with config.py:181-196: the override is written, the
\* settings are loaded again and the cached client is dropped.  When the new
\* settings cannot be loaded the handler raises before _reset_client.
SetBackendEndpoint(b, ok) ==
    /\ eUpdates < MaxUpdates
    /\ eUpdates' = eUpdates + 1
    /\ IF ok
       THEN /\ eSettings' = b
            /\ ResetClient
       ELSE /\ eSettings' = "broken"
            /\ UNCHANGED eClient
    /\ UNCHANGED <<eClients, eReq, eSent>>
    /\ UNCHANGED <<tokenVars, pollVars, streamVars, batchVars, normVars>>

\* main.py:235-243 with config.py:199-207: the override is removed.
ResetBackendEndpoint ==
    /\ eUpdates < MaxUpdates
    /\ eUpdates' = eUpdates + 1
    /\ eSettings' = DefaultBackend
    /\ ResetClient
    /\ UNCHANGED <<eClients, eReq, eSent>>
    /\ UNCHANGED <<tokenVars, pollVars, streamVars, batchVars, normVars>>

\* A batch or streaming request starts: get_settings(), then _get_client
\* (main.py:246-253) returns the cached client or builds one.  With settings
\* that cannot be loaded the request ends at once.
RequestStart(r) ==
    /\ eReq[r].state = "idle"
    /\ IF eSettings = "broken"
       THEN /\ eReq' = [eReq EXCEPT ![r] = [@ EXCEPT !.state = "done"]]
            /\ UNCHANGED <<eClient, eClients>>
       ELSE IF eClient = NoClient
       THEN /\ eClients' = Append(eClients, NewClient(eSettings))
            /\ eClient' = Len(eClients) + 1
            /\ eReq' = [eReq EXCEPT ![r] = [state |-> "running",
                                            client |-> Len(eClients) + 1,
                                            under |-> eSettings]]
       ELSE /\ eReq' = [eReq EXCEPT ![r] = [state |-> "running",
                                            client |-> eClient,
                                            under |-> eSettings]]
            /\ UNCHANGED <<eClient, eClients>>
    /\ UNCHANGED <<eSettings, eSent, eUpdates>>
    /\ UNCHANGED <<tokenVars, pollVars, streamVars, batchVars, normVars>>

\* The request calls the upstream through its client (stt_client.py:157-228,
\* 403-417): the client refreshes its token at its own api base when it has
\* none (or when refresh says the one it has is stale) and sends the token
\* with the request to that api base.
RequestCall(r, refresh) ==
    /\ eReq[r].state = "running"
    /\ LET c == eReq[r].client
           tok == IF eClients[c].token = "none" \/ refresh
                  THEN eClients[c].base ELSE eClients[c].token
       IN  /\ eClients' = [eClients EXCEPT ![c].token = tok]
           /\ eSent' = eSent \cup {[token |-> tok, to |-> eClients[c].base]}
    /\ UNCHANGED <<eSettings, eClient, eReq, eUpdates>>
    /\ UNCHANGED <<tokenVars, pollVars, streamVars, batchVars, normVars>>

\* The request ends.
RequestEnd(r) ==
    /\ eReq[r].state = "running"
    /\ eReq' = [eReq EXCEPT ![r].state = "done"]
    /\ UNCHANGED <<eSettings, eClient, eClients, eSent, eUpdates>>
    /\ UNCHANGED <<tokenVars, pollVars, streamVars, batchVars, normVars>>

NextEndpoint ==
    \/ \E b \in Backends, ok \in BOOLEAN : SetBackendEndpoint(b, ok)
    \/ ResetBackendEndpoint
    \/ \E r \in Requests : RequestStart(r)
    \/ \E r \in Requests, refresh \in BOOLEAN : RequestCall(r, refresh)
    \/ \E r \in Requests : RequestEnd(r)

(***************************************************************************)
(* Part 7.  The response normalizer: _extract_segments (main.py:344-411),  *)
(* _coerce_millis (main.py:332-341) and _collect_text_candidates           *)
(* (main.py:281-329), applied to a payload whose "results" is a list of    *)
(* nodes.  The nodes tried have no alternatives and no nested utterances   *)
(* or results.                                                             *)
(***************************************************************************)

\* A timestamp field of a node: missing, an integer, a string that reads as
\* a number, anything float() cannot read (another string, a list), or a
\* number that int() cannot convert (NaN, Infinity, or a string reading so).
Time(k, n) == [kind |-> k, n |-> n]

\* A value under msg or text is truthy: a string that is not empty (blanks
\* count), or a value of another type (a number other than 0, true, a list).
Truthy(v) == v.kind = "number" \/ (v.kind = "string" /\ (v.word # "" \/ v.pad))

\* A node of the payload.  start holds start_at, start_ms and start, in this
\* order, and end holds end_at, end_ms and end.
Node(m, t, s, e, d) ==
    LET none == Time("absent", 0)
    IN  [msg |-> m, text |-> t, start |-> <<s, none, none>>,
         end |-> <<e, none, none>>, duration |-> d]

\* The payloads tried.  Under "results": no node, one node, or two nodes of
\* which the second is well-formed.  Under "utterances" at the top level, or
\* with a text at the top level: a few well-formed lists.
Payloads ==
    LET none == Time("absent", 0)
        Nodes == {Node(m, t, s, e, d) :
                    m \in {NoValue, NumberValue, Text("hi", TRUE, FALSE),
                           Text("", TRUE, FALSE), Text("", FALSE, FALSE)},
                    t \in {NoValue, Text("yo", FALSE, FALSE)},
                    s \in {none, Time("int", 0), Time("int", 5), Time("numstr", 7),
                           Time("int", 0 - 4), Time("junk", 0), Time("inf", 0)},
                    e \in {none, Time("int", 3)},
                    d \in {none, Time("int", 2)}}
        Second == Node(Text("hi", FALSE, FALSE), NoValue, Time("int", 5), none, none)
        Zero == Node(Text("hi", FALSE, FALSE), NoValue, none, none, Time("int", 2))
        Lists == {<<>>} \cup {<<a>> : a \in Nodes}
                 \cup {<<a, Second>> :
                         a \in {Node(NumberValue, NoValue, none, none, none),
                                Node(Text("", TRUE, FALSE), NoValue, none, none, none),
                                Node(Text("yo", FALSE, FALSE), NoValue, Time("inf", 0),
                                     none, none)}}
                 \cup {<<[Zero EXCEPT !.start = <<none, slot2, slot3>>]>> :
                         slot2, slot3 \in {none, Time("int", 0), Time("int", 6)}}
        Plain == {<<>>, <<Second>>,
                  <<Node(Text("yo", FALSE, FALSE), NoValue, Time("int", 1), none,
                         Time("int", 2)), Second>>}
    IN  {Doc("results", l, NoValue, <<>>) : l \in Lists}
        \cup {Doc(k, l, t, <<>>) :
                k \in {"results", "utterances"}, l \in Plain,
                t \in {NoValue, NumberValue, Text("top", FALSE, FALSE),
                       Text("", TRUE, FALSE)}}

\* main.py:332-341.  The result is None (some = FALSE) or an integer, or the
\* call raises: int() of NaN or of an infinity raises ValueError or
\* OverflowError, in the first branch outside any try and in the second one
\* not among the exceptions caught.
CoerceMillis(v) ==
    [raised |-> v.kind = "inf",
     some |-> v.kind \in {"int", "numstr"},
     n |-> IF v.kind \in {"int", "numstr"} THEN v.n ELSE 0]

\* main.py:372-381: "a or b or c" over the coerced values: the first one
\* that is truthy, else the last one; a value is coerced only when the ones
\* before it are falsy.
RECURSIVE FirstMillis(_, _)
FirstMillis(vals, i) ==
    LET c == CoerceMillis(vals[i])
    IN  IF c.raised \/ (c.some /\ c.n # 0) \/ i = Len(vals) THEN c
        ELSE FirstMillis(vals, i + 1)

\* The outcome of a call: it raised, or it returned out.
Outcome(exc, out) == [raised |-> exc, out |-> out]

\* main.py:361-398 for one node.
ExtractNode(node) ==
    LET text == IF Truthy(node.msg) THEN node.msg ELSE node.text
        s == FirstMillis(node.start, 1)
        e == FirstMillis(node.end, 1)
        d == CoerceMillis(node.duration)
        end_some == e.some \/ (s.some /\ d.some)
        end_n == IF e.some THEN e.n ELSE IF s.some /\ d.some THEN s.n + d.n ELSE 0
        startMs == IF s.some /\ s.n # 0 THEN s.n ELSE 0
        endMs == IF end_some /\ end_n # 0 THEN end_n ELSE startMs
    IN  IF s.raised \/ e.raised \/ d.raised THEN Outcome(TRUE, <<>>)
        ELSE IF ~Truthy(text) THEN Outcome(FALSE, <<>>)
        ELSE IF text.kind # "string" THEN Outcome(TRUE, <<>>)
        ELSE Outcome(FALSE, <<[startMs |-> startMs, endMs |-> endMs, text |-> Strip(text)]>>)

\* main.py:348-351: the nodes of a list, in order; an exception ends the walk.
RECURSIVE ExtractFrom(_, _)
ExtractFrom(list, i) ==
    IF i > Len(list) THEN Outcome(FALSE, <<>>)
    ELSE LET h == ExtractNode(list[i])
         IN  IF h.raised THEN Outcome(TRUE, <<>>)
             ELSE LET r == ExtractFrom(list, i + 1)
                  IN  IF r.raised THEN Outcome(TRUE, <<>>) ELSE Outcome(FALSE, h.out \o r.out)

\* main.py:405-411: the results of the payload; when they give no segment,
\* the payload itself as a node: its text without timestamps, then the lists
\* under "utterances" and "results" (main.py:356-359, 361, 384-402).
ExtractSegments(payload) ==
    LET none == Time("absent", 0)
        first == IF payload.key = "results" THEN ExtractFrom(payload.nodes, 1)
                 ELSE Outcome(FALSE, <<>>)
        own == ExtractNode(Node(NoValue, payload.text, none, none, none))
        nested == ExtractFrom(payload.nodes, 1)
    IN  IF first.raised \/ first.out # <<>> THEN first
        ELSE IF own.raised \/ nested.raised THEN Outcome(TRUE, <<>>)
        ELSE Outcome(FALSE, own.out \o nested.out)

\* main.py:281-287
AppendTextCandidate(v) ==
    IF v.kind = "string" /\ Strip(v).word # "" THEN <<Strip(v)>> ELSE <<>>

\* main.py:290-320 over the nodes of a list.
RECURSIVE CollectFrom(_, _)
CollectFrom(list, i) ==
    IF i > Len(list) THEN <<>>
    ELSE AppendTextCandidate(list[i].msg) \o AppendTextCandidate(list[i].text)
         \o CollectFrom(list, i + 1)

\* main.py:323-329: the results of the payload; when they give no text, the
\* payload itself: its text, then the lists under "utterances" and "results".
\* No step of it raises on the payloads tried.
CollectTextCandidates(payload) ==
    LET first == IF payload.key = "results" THEN CollectFrom(payload.nodes, 1)
                 ELSE <<>>
    IN  Outcome(FALSE, IF first # <<>> THEN first
                       ELSE AppendTextCandidate(payload.text)
                            \o CollectFrom(payload.nodes, 1))

\* main.py:666: " ".join of the texts of the segments that have one.
RECURSIVE JoinTexts(_, _)
JoinTexts(segs, i) ==
    IF i > Len(segs) THEN ""
    ELSE LET rest == JoinTexts(segs, i + 1)
             word == segs[i].text.word
         IN  IF word = "" THEN rest
             ELSE IF rest = "" THEN word
             ELSE word \o " " \o rest

\* A payload has arrived from the upstream.
InitNorm ==
    /\ nPayload \in Payloads
    /\ nSeg = NotRun
    /\ nTexts = NotRun
    /\ nOut = Doc("results", <<>>, NoValue, <<>>)
    /\ nAgain = NotRun
    \* no request uses the client cache
    /\ eSettings = DefaultBackend
    /\ eClient = NoClient
    /\ eClients = <<>>
    /\ eReq = [r \in Requests |-> IdleRequest]
    /\ eSent = {}
    /\ eUpdates = 0
    \* no batch job is polled
    /\ ppc = "init"
    /\ clock = 0
    /\ interval = 1
    /\ timeout = 1
    /\ deadline = 0
    /\ outcome = "none"
    /\ fetches = 0
    /\ lateFetches = 0
    /\ returns = 0
    /\ sawTerminal = FALSE
    /\ lastStatus = "none"
    /\ enteredAt = 0
    \* the token cache is left alone here
    /\ deployment = "cloud"
    /\ manual_token = ""
    /\ auth_enabled = TRUE
    /\ access_token = NoToken
    /\ token_expiry = 0
    /\ token_lock = [holder |-> NoCaller, waiters |-> <<>>]
    /\ now = DefaultLease
    /\ ticks = 0
    /\ pc = [c \in Callers |-> "idle"]
    /\ ret = [c \in Callers |-> NoResult]
    /\ calls = 0
    /\ issued = 0
    /\ ended = 0
    /\ nref = [c \in Callers |-> 0]
    /\ hit = [c \in Callers |-> FALSE]
    /\ got = [c \in Callers |-> NoToken]
    /\ lastStore = NoStore
    /\ racers = {}
    /\ wakeMiss = FALSE
    \* no streaming session, no relay
    /\ channel = "none"
    /\ call = "none"
    /\ done_writing = FALSE
    /\ written = <<>>
    /\ recv_queue = <<>>
    /\ recv_task = "none"
    /\ must_cancel = FALSE
    /\ last_error = FALSE
    /\ closed = FALSE
    /\ emitted = <<>>
    /\ sentinels = 0
    /\ releases = 0
    /\ received = <<>>
    /\ sendRes = "none"
    /\ lateSend = "none"
    /\ finishes = 0
    /\ closeCalls = 0
    /\ emittedAtFinish = 0
    /\ ops = 0
    /\ hpc = "off"
    /\ pst = [p \in Pumps |-> "none"]
    /\ pcancel = [p \in Pumps |-> FALSE]
    /\ pres = [p \in Pumps |-> "none"]
    /\ wsClient = "connected"
    /\ wsIn = 0
    /\ wsOut = <<>>
    /\ wsClosed = FALSE
    /\ upstream = "none"
    /\ teardown = <<>>
    /\ raised = {}
    /\ escaped = "none"
    /\ lastText = NoFrame
    \* no batch request is handled
    /\ bpc = "off"
    /\ bHandler = "none"
    /\ bReq = "none"
    /\ bCalls = <<>>
    /\ bSub = NoReply
    /\ bRet = NoReply
    /\ bJob = ""
    /\ bPayload = NoPayload
    /\ bColl = "none"
    /\ bCollOk = FALSE
    /\ bResp = NoResponse
    /\ bKind = "none"

\* main.py:660-673: the status handler applies _extract_segments to the
\* payload; segments that are not empty are stored under "segments", and
\* their joined texts under "text" when the payload has no truthy text.
ExtractSegmentsCall ==
    /\ ~nSeg.called
    /\ LET r == ExtractSegments(nPayload)
       IN  /\ nSeg' = [called |-> TRUE, raised |-> r.raised, out |-> r.out]
           /\ nOut' = IF r.raised \/ r.out = <<>> THEN nPayload
                      ELSE Doc(nPayload.key, nPayload.nodes,
                               IF Truthy(nPayload.text) THEN nPayload.text
                               ELSE Text(JoinTexts(r.out, 1), FALSE, FALSE),
                               r.out)
    /\ UNCHANGED <<nPayload, nTexts, nAgain>>
    /\ UNCHANGED <<tokenVars, pollVars, streamVars, batchVars, endpointVars>>

\* The payload that the handler returned is given to _extract_segments
\* again (main.py:405-411).
ExtractSegmentsAgain ==
    /\ nSeg.called /\ ~nSeg.raised
    /\ ~nAgain.called
    /\ LET r == ExtractSegments(nOut)
       IN  nAgain' = [called |-> TRUE, raised |-> r.raised, out |-> r.out]
    /\ UNCHANGED <<nPayload, nSeg, nTexts, nOut>>
    /\ UNCHANGED <<tokenVars, pollVars, streamVars, batchVars, endpointVars>>

\* main.py:1092: _collect_text_candidates is applied to the payload.
CollectTextCall ==
    /\ ~nTexts.called
    /\ nTexts' = [called |-> TRUE, raised |-> CollectTextCandidates(nPayload).raised,
                  out |-> CollectTextCandidates(nPayload).out]
    /\ UNCHANGED <<nPayload, nSeg, nOut, nAgain>>
    /\ UNCHANGED <<tokenVars, pollVars, streamVars, batchVars, endpointVars>>

NextNorm ==
    \/ ExtractSegmentsCall
    \/ ExtractSegmentsAgain
    \/ CollectTextCall

(***************************************************************************)
(* Specifications                                                          *)
(***************************************************************************)

TokenSpec == InitToken /\ [][NextToken]_vars

PollSpec == InitPoll /\ [][NextPoll]_vars

\* The event loop runs every coroutine that can run: a sleep ends and a
\* fetch that has been issued returns or raises.
PollLiveSpec == PollSpec /\ WF_vars(NextPoll)

SessionSpec == InitSession /\ [][NextSession]_vars

\* The event loop runs every task that can run: the receive task takes its
\* steps and a consumer whose recv() can return is resumed.  Every upstream
\* call ends at some time, normally or with an error.
SessionLiveSpec ==
    /\ SessionSpec
    /\ WF_vars(RecvLoopStart)
    /\ WF_vars(RecvLoopCancelled)
    /\ WF_vars(\E how \in {"ok", "error"} : RecvLoopEnd(how))
    /\ WF_vars(ApiRecv)

RelaySpec == InitRelay /\ [][NextRelay]_vars

BatchSpec == InitBatch /\ [][NextBatch]_vars

EndpointSpec == InitEndpoint /\ [][NextEndpoint]_vars

NormSpec == InitNorm /\ [][NextNorm]_vars

(***************************************************************************)
(* Claims about the access token cache (checked under TokenSpec)           *)
(***************************************************************************)

InFlight == {c \in Callers : pc[c] = "post"}
AllDone == \A c \in Callers : pc[c] = "done"
Credentialed == auth_enabled /\ manual_token = ""

\* C1: at most one refresh request to the auth endpoint is in flight at any
\* time, whatever the interleaving of the callers.
Thm_C1 == Cardinality(InFlight) <= 1

\* A refresh is in flight while another caller is queued on the lock.
Wit_C1 == \E c, d \in Callers : pc[c] = "post" /\ pc[d] = "wait"

\* C2 as stated: when all callers race the initial cache miss, exactly one
\* refresh request is issued in total.
Orig_C2 == (racers = Callers /\ AllDone /\ calls = NumCallers) => issued = 1

\* C2 amended: when all callers race the initial cache miss, exactly one
\* refresh request is issued in total provided every caller woken on the lock
\* finds a valid token at its re-check (the refresh succeeded and stored a
\* token with now < expiresAt - 5).
Thm_C2 == (racers = Callers /\ calls = NumCallers /\ ~wakeMiss) => issued = 1

\* All callers raced the miss, one refreshed, the others were served the
\* cached token after waiting.
Wit_C2 ==
    /\ racers = Callers
    /\ AllDone
    /\ calls = NumCallers
    /\ ~wakeMiss
    /\ issued = 1
    /\ \E c \in Callers : ret[c].kind = "fresh"
    /\ \E c \in Callers : ret[c].kind = "cached"

\* C3: with a static token configured, every call returns exactly that token
\* and no request is ever sent to the auth endpoint, in either deployment.
Thm_C3 ==
    manual_token # "" =>
        /\ issued = 0
        /\ access_token = NoToken
        /\ \A c \in Callers :
              /\ pc[c] \in {"idle", "done"}
              /\ pc[c] = "done" => (ret[c].kind = "static" /\ ret[c].tok = manual_token)

\* Every allowed call has been made with a static token configured, on-prem.
Wit_C3 ==
    /\ manual_token = "abc"
    /\ deployment = "onprem"
    /\ calls = MaxCalls
    /\ AllDone

Orig_C5 ==
    \A c \in Callers :
        (pc[c] = "done" /\ ret[c].kind \in {"cached", "fresh"}) => ret[c].usable

\* C5 amended: a token served from the cache is usable at the moment of the
\* return (now < expiresAt - 5); a token just obtained by a refresh is
\* returned without that check and is only known not to have expired
\* (now < expiresAt).
Thm_C5 ==
    \A c \in Callers :
        /\ (pc[c] = "done" /\ ret[c].kind = "cached") => ret[c].usable
        /\ (pc[c] = "done" /\ ret[c].kind = "fresh") => ret[c].live

\* A freshly refreshed token inside the margin was returned, and a cached
\* token was served.
Wit_C5 ==
    \E c, d \in Callers :
        /\ pc[c] = "done" /\ ret[c].kind = "fresh" /\ ~ret[c].usable
        /\ pc[d] = "done" /\ ret[d].kind = "cached"

\* C6: a refresh that fails raises to its caller and leaves the pair
\* (token, expiry) as it was; a refresh that succeeds replaces both together;
\* and nothing else changes either of them.
Thm_C6 ==
    [][/\ \A c \in Callers :
            (pc[c] = "post" /\ pc'[c] # "post") =>
                \/ /\ pc'[c] = "done"
                   /\ ret'[c].kind = "error"
                   /\ access_token' = access_token
                   /\ token_expiry' = token_expiry
                \/ /\ pc'[c] = "done"
                   /\ ret'[c].kind = "fresh"
                   /\ access_token' = ret[c].tok
                   /\ access_token' # access_token
                   /\ token_expiry' \in {lastStore'.asked.val, now + DefaultLease}
                   /\ token_expiry' > now
                   /\ lastStore'.tok = access_token'
                   /\ lastStore'.at = now
       /\ (access_token' # access_token \/ token_expiry' # token_expiry) =>
             \E c \in Callers :
                 pc[c] = "post" /\ ret'[c].kind = "fresh" /\ ret'[c].tok = access_token'
      ]_vars

\* A refresh failed while the cache held the token of an earlier refresh.
Wit_C6 ==
    \E c \in Callers :
        /\ pc[c] = "done"
        /\ ret[c].kind = "error"
        /\ nref[c] = 1
        /\ access_token # NoToken
        /\ access_token = lastStore.tok

\* The value the reply of the last successful refresh asks for: expire_at
\* when it is a number, else refresh time + expires_in when that is a number.
Asked == lastStore.asked

\* C7 as stated: after a refresh whose reply carries expires_in = 0 or an
\* expire_at in the past, the cache holds a token that is already expired,
\* so the next call cannot be served from the cache.
Orig_C7 ==
    (/\ access_token # NoToken
     /\ access_token = lastStore.tok
     /\ Asked.some
     /\ Asked.val <= lastStore.at)
        => ~TokenValid(access_token, token_expiry, lastStore.at)

\* C8 as stated: the stored expiry is expire_at when the reply has a usable
\* expire_at, else refresh time + expires_in when it has a usable expires_in,
\* else refresh time + 300.
Orig_C8 ==
    (access_token # NoToken /\ access_token = lastStore.tok) =>
        token_expiry = (IF Asked.some THEN Asked.val
                        ELSE lastStore.at + DefaultLease)

(***************************************************************************)
(* Claims about _poll_until_complete (checked under PollSpec and, for      *)
(* termination, PollLiveSpec)                                              *)
(***************************************************************************)

\* C9 as stated: once the clock has passed the deadline, poll issues no
\* further status fetch.
Orig_C9 == lateFetches = 0

\* C10: if the upstream never reports completed or failed and every status
\* fetch returns, poll eventually terminates, returning the Timeout outcome;
\* it returns once, and never hands back a non-terminal status payload.
Thm_C10 ==
    /\ <>(sawTerminal \/ outcome = "error"
             \/ (ppc = "done" /\ outcome = "timeout" /\ returns = 1))
    /\ [](returns <= 1)
    /\ []((ppc = "done") <=> (returns = 1))
    /\ [](ppc = "done" => outcome \in {"completed", "failed", "timeout", "error"})
    /\ [](outcome \in {"completed", "failed"} => sawTerminal)

\* Poll timed out after several fetches that all answered "processing".
Wit_C10 ==
    /\ ppc = "done"
    /\ outcome = "timeout"
    /\ ~sawTerminal
    /\ fetches >= 2
    /\ returns = 1

\* C11: as soon as a status fetch answers completed or failed, poll returns
\* that payload in the same step, with no sleep and no further fetch, also
\* when the deadline has already passed; a job seen terminal is never polled
\* again.
Thm_C11 ==
    /\ [](sawTerminal =>
             /\ ppc = "done"
             /\ returns = 1
             /\ outcome = lastStatus
             /\ outcome \in {"completed", "failed"})
    /\ [][sawTerminal => (fetches' = fetches /\ ppc' = ppc /\ outcome' = outcome)]_vars
    /\ [][(~sawTerminal /\ sawTerminal') =>
             (ppc' = "done" /\ outcome' = lastStatus' /\ fetches' = fetches)]_vars

\* A fetch that came back after the deadline answered completed, and poll
\* returned that answer.
Wit_C11 ==
    /\ sawTerminal
    /\ ppc = "done"
    /\ outcome = "completed"
    /\ clock > deadline
    /\ fetches >= 2

\* C12: the poll deadline is one absolute instant, fixed when
\* _poll_until_complete is entered on acceptance of the submission (entry
\* time + poll timeout); no poll round recomputes or extends it, and poll ends
\* in Timeout exactly when a non-terminal answer arrives after that instant,
\* whatever the number of rounds run.
Thm_C12 ==
    /\ [](ppc # "init" => deadline = enteredAt + timeout)
    /\ [][ppc # "init" => (deadline' = deadline /\ enteredAt' = enteredAt
                            /\ timeout' = timeout)]_vars
    /\ [](outcome = "timeout" => (clock > deadline /\ lastStatus = "processing"))
    /\ [](ppc = "sleep" => clock <= deadline)
    /\ []((ppc = "done" /\ lastStatus = "processing" /\ outcome # "error")
             => outcome = "timeout")

\* Poll timed out on its very first answer, the submission having been
\* accepted at a time other than 0.
Wit_C12 ==
    /\ outcome = "timeout"
    /\ fetches = 1
    /\ enteredAt > 0
    /\ deadline = enteredAt + timeout

(***************************************************************************)
(* Claims about the streaming relay (checked under RelaySpec)              *)
(***************************************************************************)

IsPrefix(a, b) == Len(a) <= Len(b) /\ \A i \in 1..Len(a) : a[i] = b[i]
Messages(seq) == SelectSeq(seq, LAMBDA r : r # EndOfStream)
RelayFrames == SelectSeq(wsOut, LAMBDA f : f.type \notin {"ready", "error"})
Did(op) == \E i \in 1..Len(teardown) : teardown[i] = op
UpstreamOpened ==
    IF deployment = "onprem" THEN recv_task # "none" ELSE upstream # "none"
PumpsStarted == \E p \in Pumps : pst[p] # "none"

\* C13 as stated: in a streaming relay of either deployment, if the local
\* client disconnects, the close of the upstream session is invoked and, once
\* the handler has returned, neither pump task is still running.
Orig_C13 ==
    (hpc = "returned" /\ wsClient = "gone" /\ UpstreamOpened) =>
        /\ Did("close_upstream")
        /\ \A p \in Pumps : pst[p] # "run"

\* C14: whichever pump finishes first, the handler cancels the other pump,
\* then closes the upstream session, then the local connection; the local
\* close is attempted also when the upstream close raises, and no exception
\* of the teardown leaves the handler.
Thm_C14 ==
    /\ escaped \in {"none", "ready", "pump"}
    /\ hpc \in {"close_upstream", "close_local", "returned"} =>
          \A p \in Pumps : pst[p] = "run" => pcancel[p]
    /\ hpc = "close_upstream" => teardown = <<"cancel">>
    /\ hpc = "close_local" => teardown = <<"cancel", "close_upstream">>
    /\ (hpc = "returned" /\ PumpsStarted) =>
          /\ teardown = <<"cancel", "close_upstream", "close_local">>
          /\ wsClosed

\* The upstream-to-client pump ended first, the close of the upstream raised,
\* the local connection was closed all the same and the handler returned.
Wit_C14 ==
    /\ hpc = "returned"
    /\ pres["u2c"] \in {"ok", "error"}
    /\ pres["c2u"] = "cancelled"
    /\ "close_upstream" \in raised
    /\ wsClosed
    /\ escaped = "none"

\* C15 as stated: when an on-prem relay has ended, on any path, the RPC call
\* and the channel of its session are closed and the background receive task
\* is cancelled or finished, whatever the order of recv() and close().
Orig_C15 ==
    (deployment = "onprem" /\ hpc = "returned" /\ channel # "none") =>
        /\ call = "closed"
        /\ channel = "closed"
        /\ (recv_task \in {"none", "done"} \/ must_cancel)

\* C16: in an on-prem relay each direction keeps the arrival order, without
\* loss or duplication up to the point where it stops: the audio frames
\* written upstream are a prefix of the binary frames received from the
\* client, lacking the last one at most, and the text frames sent to the
\* client after ready are, one per message and in order, the payloads of the
\* messages recv() returned, which are a prefix of the call's responses.
Thm_C16 ==
    deployment = "onprem" =>
        /\ IsPrefix(written, [i \in 1..wsIn |-> i])
        /\ Len(written) >= wsIn - 1
        /\ Running("c2u") => Len(written) = wsIn
        /\ IsPrefix(Messages(received), emitted)
        /\ Len(RelayFrames) <= Len(Messages(received))
        /\ Len(RelayFrames) >= Len(Messages(received)) - 1
        /\ Running("u2c") => Len(RelayFrames) = Len(Messages(received))
        /\ \A i \in 1..Len(RelayFrames) :
              RelayFrames[i] = GrpcResponsePayload(received[i])

\* Two audio frames went upstream and two responses, a partial and a final
\* one, went to the client.
Wit_C16 ==
    /\ deployment = "onprem"
    /\ written = <<1, 2>>
    /\ Len(RelayFrames) = 2
    /\ RelayFrames[1].type = "partial"
    /\ RelayFrames[2].type = "final"

(***************************************************************************)
(* Claims about GrpcStreamingSession (checked under SessionSpec and, for   *)
(* the release of the consumer, SessionLiveSpec)                           *)
(***************************************************************************)

\* C17 as stated: a send_audio made after finish() or after close() fails
\* with a state error and writes nothing upstream.
Orig_C17 == lateSend \in {"none", "state_error"}

\* C18: after a first close(), a further close() performs no cancel or close
\* operation and leaves the state of the session as it is.
Thm_C18 ==
    [][(closeCalls >= 1 /\ closeCalls' = closeCalls + 1) =>
          (UNCHANGED sessVars /\ releases' = releases)]_vars

\* close() was called twice on a started session; the first call released the
\* receive task, the call and the channel.
Wit_C18 ==
    /\ closeCalls >= 2
    /\ releases = 3
    /\ channel = "closed"

\* C19: finish() only half-closes the write side: it does not cancel the
\* receive task and does not close the call or the channel; the responses the
\* call yields afterwards are returned by recv(), in order, before the
\* sentinel.
Thm_C19 ==
    /\ [][finishes' # finishes =>
             (/\ done_writing' = (call # "none" \/ done_writing)
              /\ UNCHANGED <<channel, call, recv_task, must_cancel, recv_queue,
                             closed, emitted, received, releases>>)]_vars
    /\ [](IsPrefix(Messages(received), emitted))
    /\ [](GotEndOfStream => Messages(received) = emitted)

\* After finish() the call yielded a further response, and the consumer got
\* every response and then the sentinel; close() was never called.
Wit_C19 ==
    /\ finishes >= 1
    /\ closeCalls = 0
    /\ Len(emitted) > emittedAtFinish
    /\ GotEndOfStream
    /\ Messages(received) = emitted

\* C20 as stated: the queue is fed by one producer that puts every response
\* in arrival order and then exactly one sentinel, always last; recv() returns
\* the sentinel only after every earlier response; and a consumer waiting in
\* recv() on a started session is eventually released.
Orig_C20 ==
    /\ [](sentinels <= 1)
    /\ [](\A i \in 1..Len(recv_queue) :
             recv_queue[i] = EndOfStream => i = Len(recv_queue))
    /\ [](IsPrefix(Messages(received) \o Messages(recv_queue), emitted))
    /\ [](GotEndOfStream => Messages(received) = emitted)
    /\ [](recv_task # "none" => <>GotEndOfStream)

(***************************************************************************)
(* Claims settled in the third sitting                                     *)
(***************************************************************************)

\* The moves of the session's state machine; start() passes through
\* Connecting within one step when the configuration is written.
SessionMoves ==
    {<<"Idle", "Connecting">>, <<"Idle", "Streaming">>,
     <<"Connecting", "Streaming">>, <<"Streaming", "HalfClosed">>}
    \cup {<<st, "Closed">> : st \in {"Idle", "Connecting", "Streaming", "HalfClosed"}}

\* C21 as stated: the session only moves Idle -> Connecting -> Streaming ->
\* HalfClosed -> Closed, to Closed from any state, and Closed is absorbing: once
\* closed it stays closed and no later start, send_audio or finish opens a
\* channel, a call or a receive task.
Orig_C21 ==
    /\ [][SessionState' # SessionState =>
             <<SessionState, SessionState'>> \in SessionMoves]_vars
    /\ [][closed => (/\ closed'
                     /\ channel = "none" => channel' = "none"
                     /\ call = "none" => call' = "none"
                     /\ recv_task = "none" => recv_task' = "none")]_vars

\* The text frame is a JSON object and the first of its values under type,
\* event, state and event_type that is a string with something other than
\* blanks in it reads final, stop or eos when trimmed and lower-cased.
MarkerWord(frame) ==
    /\ frame.json = "object"
    /\ \E i \in 1..Len(TypeKeys) :
          /\ frame[TypeKeys[i]].kind = "string"
          /\ frame[TypeKeys[i]].word \in {"final", "stop", "eos"}
          /\ \A j \in 1..(i - 1) :
                \/ frame[TypeKeys[j]].kind # "string"
                \/ frame[TypeKeys[j]].word = ""

\* A step in which the on-prem client pump receives a text frame.
PumpReadsText == hpc # "accepted" /\ lastText' # lastText

\* C22: a text frame that is a terminal marker makes the client pump call
\* finish() once and end, without closing the session; after the pump has
\* ended no further frame of the client is received or written upstream and
\* finish() is not called again; any other text frame leaves the pump running
\* and the session as it was.
Thm_C22 ==
    /\ [][PumpReadsText =>
            IF MarkerWord(lastText')
            THEN /\ finishes' = finishes + 1
                 /\ done_writing'
                 /\ pst'["c2u"] = "done" /\ pres'["c2u"] = "ok"
                 /\ closeCalls' = closeCalls
                 /\ UNCHANGED <<closed, channel, call, recv_task, must_cancel>>
            ELSE /\ UNCHANGED <<pst, pres, finishes, closeCalls>>
                 /\ UNCHANGED sessVars]_vars
    /\ [][pst["c2u"] = "done" =>
            UNCHANGED <<wsIn, written, finishes, lastText>>]_vars
    /\ [](hpc # "off" => finishes <= 1)

\* The pump has written audio upstream and then received a marker written
\* with blanks and capitals: finish() was called once, the pump has ended and
\* the session is not closed.
Wit_C22 ==
    /\ MarkerWord(lastText)
    /\ lastText.type.pad /\ lastText.type.upper
    /\ finishes = 1
    /\ written # <<>>
    /\ pst["c2u"] = "done"
    /\ ~closed

\* The frame is a start message: a JSON object whose first value under type,
\* event, state and event_type that is a string with something other than
\* blanks in it reads start, session or start_request when trimmed and
\* lower-cased, or which has no such value.
StartWord(frame) ==
    /\ frame.json = "object"
    /\ \A i \in 1..Len(TypeKeys) :
          (/\ frame[TypeKeys[i]].kind = "string"
           /\ frame[TypeKeys[i]].word # ""
           /\ \A j \in 1..(i - 1) :
                 \/ frame[TypeKeys[j]].kind # "string"
                 \/ frame[TypeKeys[j]].word = "")
          => frame[TypeKeys[i]].word \in {"start", "session", "start_request"}

\* A step that opens the upstream session.
OpensUpstream ==
    \/ channel = "none" /\ channel' # "none"
    \/ upstream = "none" /\ upstream' # "none"

\* C23 as stated: a streaming relay of either deployment opens the upstream
\* session only after the first frame of the client has been received and
\* accepted as a start message; a first frame that is not one is answered
\* with an error frame and a close and no upstream session is opened; the
\* ready frame is sent only when the upstream session is open; and no audio
\* frame and no result frame is relayed before the ready frame was sent.
Orig_C23 ==
    /\ [][OpensUpstream => (lastText # NoFrame /\ StartWord(lastText))]_vars
    /\ [][(hpc = "accepted" /\ lastText' # lastText /\ ~StartWord(lastText')) =>
            /\ hpc' = "returned"
            /\ wsOut' = <<ErrorFrame>>
            /\ wsClosed'
            /\ channel' = "none" /\ upstream' = "none"]_vars
    /\ [][(Len(wsOut') > Len(wsOut) /\ wsOut'[Len(wsOut')] = ReadyFrame) =>
            UpstreamOpened]_vars
    /\ []((wsIn > 0 \/ written # <<>> \/ RelayFrames # <<>>) =>
            (wsOut # <<>> /\ wsOut[1] = ReadyFrame))

\* The attempt to open the upstream session failed.
ConnectFailed ==
    IF deployment = "onprem"
    THEN channel # "none" /\ recv_task = "none"
    ELSE hpc = "returned" /\ upstream = "none"

\* Error frames sent to the local client.
ErrorFrames == SelectSeq(wsOut, LAMBDA f : f = ErrorFrame)

\* C24 as stated: when a relay has ended because the upstream connection
\* failed or because the upstream call ended with an error during the relay,
\* the local client, still connected, has been sent exactly one error frame
\* and its connection has been closed.
Orig_C24 ==
    (hpc = "returned" /\ wsClient = "connected" /\ (ConnectFailed \/ last_error)) =>
        /\ Len(ErrorFrames) = 1
        /\ wsClosed

\* The audio string is base64: it has no character outside the alphabet and
\* is correctly padded.
ValidBase64(audio) == ~audio.foreign /\ audio.aligned

\* The language code reads korean, in any case.
SupportedLanguage(lang) == lang.word = "korean" /\ ~lang.pad

\* The request that the handler has validated is malformed.
MalformedInput ==
    \/ /\ bHandler = "stt_api"
       /\ ~SupportedLanguage(bReq.lang) \/ ~ValidBase64(bReq.audio)
    \/ /\ bHandler = "transcribe"
       /\ bReq.empty \/ bReq.config \in {"invalid", "list"}

\* C25 as stated: a batch request with an unsupported language or with audio
\* that is not valid base64, and an upload with an empty file or a config
\* that is not a JSON object, is rejected, and no token refresh, submit or
\* status request is sent upstream for it.
Orig_C25 ==
    MalformedInput =>
        /\ bCalls = <<>>
        /\ fetches = 0
        /\ bpc = "done" => bKind = "rejected"

\* What a caller can read off a failure response of /stt_api: the message of
\* a failed submit, the message of a timeout, or anything else, which is then
\* what the upstream reported.
Told(resp) ==
    IF resp.recognized # <<>>
       /\ resp.recognized[1] \in {"Failed to submit transcription job:",
                                  "Upstream response did not include transcribe_id."}
    THEN "submit_failed"
    ELSE IF resp.recognized = TimeoutMessage THEN "timeout"
    ELSE "upstream_failed"

\* C26 as stated: a request to /stt_api that ended because the job could not
\* be submitted, because polling timed out, or because the upstream reported
\* a failure is answered with result -1 and the answer tells which of the
\* three it was, whatever the upstream payload; a poll timeout is answered
\* with a response, not an exception.
Orig_C26 ==
    /\ (/\ bHandler = "stt_api"
        /\ bpc = "done"
        /\ bKind \in {"submit_failed", "timeout", "upstream_failed"}) =>
            /\ bResp.kind = "response"
            /\ bResp.result = FAILURE_CODE
            /\ Told(bResp) = bKind
    /\ (bHandler = "stt_api" /\ bpc = "done" /\ outcome = "timeout") =>
            bResp.kind = "response"

\* C28 as stated: whatever the collector does with the notification, /stt_api
\* returns the result code and text made of the final payload, as it does
\* when the collector succeeds; and the notification counts as successful
\* only when the collector answered 200 with code 0.
Orig_C28 ==
    (bHandler = "stt_api" /\ bpc = "done" /\ bColl # "none") =>
        /\ bResp = FinalResponse(bPayload)
        /\ bColl # "disabled" => (bCollOk <=> bColl = "code0")

\* The fields of a reply in the order id, tid, transcribe_id.
JobFields(reply) == <<reply.id, reply.tid, reply.transcribe_id>>

\* The first value among id, tid and transcribe_id that is not empty.
FirstJobField(reply) ==
    LET f == JobFields(reply)
        i == CHOOSE k \in 1..3 : ~Falsy(f[k]) /\ \A j \in 1..(k - 1) : Falsy(f[j])
    IN  f[i]

\* C29 as stated: once the submit request has been answered,
\* submit_transcription has returned a payload whose job id, transcribe_id, is
\* the first non-empty value among id, tid and transcribe_id of the reply;
\* or, when the reply is not 2xx or all three are missing or empty, it has
\* raised and returned nothing.
Orig_C29 ==
    bSub.http # "none" =>
        IF bSub.http = "ok" /\ \E k \in 1..3 : ~Falsy(JobFields(bSub)[k])
        THEN /\ bRet # NoReply
             /\ bRet.transcribe_id = FirstJobField(bSub)
        ELSE /\ bRet = NoReply
             /\ bKind = "submit_failed"

\* C27: the client handed to a request was built from the settings in force
\* when the request started, whatever updates of the endpoint came before or
\* come while it runs; the cached client, when there is one, was built from
\* the settings in force; and every token sent upstream was issued by the
\* backend it is sent to.
Thm_C27 ==
    /\ \A r \in Requests :
          eReq[r].client # NoClient =>
              eClients[eReq[r].client].base = eReq[r].under
    /\ (eClient # NoClient /\ eSettings # "broken") =>
          eClients[eClient].base = eSettings
    /\ \A s \in eSent : s.token = s.to

\* The endpoint was replaced while a request was running: that request still
\* runs with the client of the old backend, a request started afterwards has
\* a client of the new one, and each has sent a token to its own backend.
Wit_C27 ==
    /\ eUpdates > 0
    /\ \E r1, r2 \in Requests :
          /\ eReq[r1].state = "running" /\ eReq[r1].under = "b1"
          /\ eReq[r2].state = "running" /\ eReq[r2].under = "b2"
          /\ eReq[r1].client # eReq[r2].client
    /\ eSent = {[token |-> "b1", to |-> "b1"], [token |-> "b2", to |-> "b2"]}

\* C30 as stated: for every payload, with fields of any type, segment
\* extraction and text collection return a result and do not raise.
Orig_C30 ==
    /\ nSeg.called => ~nSeg.raised
    /\ nTexts.called => ~nTexts.raised

(***************************************************************************)
(* Claims settled in the fourth sitting                                    *)
(***************************************************************************)

\* The segments that _extract_segments returned for the payload.
Segments == IF nSeg.called /\ ~nSeg.raised THEN nSeg.out ELSE <<>>

\* C31 as stated: every segment that the normalizer produces has a text that
\* is not empty after trimming, so that a node whose text is empty or made of
\* blanks gives no segment.
Orig_C31 == \A i \in DOMAIN Segments : Segments[i].text.word # ""

\* C32 as stated: every segment that the normalizer produces has
\* 0 <= startMs <= endMs, whatever start, end and duration the node carries.
Orig_C32 ==
    \A i \in DOMAIN Segments :
        /\ 0 <= Segments[i].startMs
        /\ Segments[i].startMs <= Segments[i].endMs

\* The payload is one result node with a text, no end field, a duration, and
\* a start under exactly one of start_at, start_ms and start.
StartAndDuration ==
    /\ nPayload.key = "results"
    /\ Len(nPayload.nodes) = 1
    /\ LET node == nPayload.nodes[1]
       IN  /\ Truthy(node.msg) /\ node.msg.kind = "string"
           /\ \A i \in 1..3 : node.end[i].kind = "absent"
           /\ node.duration.kind = "int"
           /\ \E i \in 1..3 :
                 /\ node.start[i].kind \in {"int", "numstr"}
                 /\ \A j \in (1..3) \ {i} : node.start[j].kind = "absent"

\* The value of the one start field of such a node.
StartGiven ==
    LET node == nPayload.nodes[1]
        i == CHOOSE k \in 1..3 : node.start[k].kind \in {"int", "numstr"}
    IN  node.start[i].n

\* C33 as stated: a node with a text, a start and a duration but no end gives
\* a segment whose endMs is start + duration, also when start is 0.
Orig_C33 ==
    (nSeg.called /\ StartAndDuration)
        => /\ Len(Segments) = 1
           /\ Segments[1].endMs = StartGiven + nPayload.nodes[1].duration.n

\* C34 as stated: the normalizer applied to a payload that already carries
\* the segments it produced returns these segments again: same number, same
\* order, same text, startMs and endMs.
Orig_C34 ==
    (nAgain.called /\ nOut.segments # <<>>)
        => /\ ~nAgain.raised
           /\ nAgain.out = nOut.segments

Orig_C36 ==
    (/\ deployment = "onprem"
     /\ IsMarker(lastText)
     /\ finishes > 0
     /\ wsClient = "connected"
     /\ wsClosed)
        => Len(RelayFrames) = Len(emitted)

\* C37: a refresh that raises releases the lock: the lock is held only by a
\* caller whose refresh request is in flight, the callers queued on it are
\* exactly the waiting ones, and whenever a caller waits or has a request in
\* flight, a step that wakes the first waiter or ends the request is possible.
Thm_C37 ==
    /\ \A c \in Callers : token_lock.holder = c => pc[c] = "post"
    /\ \A c \in Callers :
          pc[c] = "wait" <=>
              \E i \in DOMAIN token_lock.waiters : token_lock.waiters[i] = c
    /\ (\E c \in Callers : pc[c] \in {"wait", "post"}) =>
          ENABLED (\/ \E c \in Callers : Wake(c)
                   \/ \E c \in Callers, why \in AuthFailures : RefreshFail(c, why)
                   \/ \E c \in Callers : RefreshOk(c, Absent, Absent))

\* A caller's refresh has raised, and a caller that was queued on the lock
\* behind it has then refreshed and got a token.
Wit_C37 ==
    \E c, d \in Callers :
        /\ c # d
        /\ racers = {c, d}
        /\ pc[c] = "done" /\ ret[c].kind = "error" /\ nref[c] = 1
        /\ pc[d] = "done" /\ ret[d].kind = "fresh" /\ nref[d] = 1
        /\ token_lock = [holder |-> NoCaller, waiters |-> <<>>]

\* C38 as stated: in /stt_api the job id that the status fetches of the
\* polling use is the id that submit_transcription selected from the reply:
\* id, else tid, else transcribe_id; also for a reply that carries several of
\* them with different values.
Orig_C38 ==
    (bHandler = "stt_api" /\ fetches > 0) => bJob = JobId(bSub)

\* C39 as stated: in /stt_api every upstream failure after the validation of
\* the input, a failing submit as well as a failing status fetch in any round
\* of the polling, ends in a response with result = -1 and a message, never in
\* an exception that leaves the handler.
Orig_C39 ==
    (bHandler = "stt_api" /\ bpc = "done"
        /\ (bKind = "submit_failed" \/ outcome = "error")) =>
        /\ bResp.kind = "response"
        /\ bResp.result = FAILURE_CODE
        /\ bResp.recognized # <<>>

\* C40 as stated: /stt_api returns result = 0 exactly when the polling ended
\* with a payload whose status is completed; a failed status, a poll timeout,
\* a failed submit and a rejected input all return result = -1.
Orig_C40 ==
    (bHandler = "stt_api" /\ bpc = "done") =>
        /\ (bResp.kind = "response" /\ bResp.result = SUCCESS_CODE)
              <=> outcome = "completed"
        /\ (outcome \in {"failed", "timeout"}
               \/ bKind \in {"submit_failed", "rejected"}) =>
              (bResp.kind = "response" /\ bResp.result = FAILURE_CODE)

====
